---- MODULE Spec2Model ----
(***************************************************************************)
(* Model of the atoship Python SDK request pipeline:                       *)
(*   atoshipSDK public method -> _make_request -> retry_with_backoff ->    *)
(*   make_request -> httpx transport -> _handle_response ->                *)
(*   create_error_from_response                                            *)
(* Python values are modelled as strings ("None" is Python's None) and     *)
(* every call that may raise is modelled by an outcome record              *)
(*   [kind |-> "return" | "raise", val |-> <body>, exc |-> <exception>].   *)
(***************************************************************************)
EXTENDS Integers, Sequences, FiniteSets, TLC

VARIABLES
    sdk,                \* the atoshipSDK object: _api_key, _base_url, _timeout, _debug and its httpx.Client
    self_max_retries,   \* atoshipSDK._max_retries
    pc,                 \* "idle" | "retrying" | "done": position of the caller's one synchronous call
    method,             \* the public method being executed ("none" when idle)
    attempt,            \* loop variable of retry_with_backoff.wrapper
    last_exception,     \* local of retry_with_backoff.wrapper
    calls,              \* number of self._client.request invocations of the current call
    sleeps,             \* delays passed to time.sleep during the current call, in order
    transcript,         \* what the transport answered on each attempt (kind and status)
    last_response,      \* the full transport outcome of the latest attempt
    ret,                \* outcome of _make_request (return value or exception)
    result,             \* outcome of the public method as seen by the caller
    arg,                \* the argument the caller passed to the public method
    requests,           \* the _make_request invocations of the current call: method, endpoint, data
    fcall               \* the latest application of a function called on its own: name, input, outcome

sdkvars == <<sdk, self_max_retries, pc, method, attempt, last_exception, calls, sleeps,
             transcript, last_response, ret, result, arg, requests>>

vars == <<sdk, self_max_retries, pc, method, attempt, last_exception, calls, sleeps,
          transcript, last_response, ret, result, arg, requests, fcall>>

----------------------------------------------------------------------------
(* Bounds of the model *)

\* the caller configures max_retries in 0..MaxCfgRetries
MaxCfgRetries == 3

(* Program constants *)

\* default of retry_with_backoff's max_retries parameter
DEFAULT_MAX_RETRIES == 3
\* default of retry_with_backoff's base_delay parameter
DEFAULT_BASE_DELAY == 1

----------------------------------------------------------------------------
(* JSON bodies.  details is a wrapper record so that mappings and           *)
(* non-mappings have one shape: kind "absent" (key missing), "map" (a JSON  *)
(* object with the given keys) or "str" (a non-empty JSON string).          *)

DAbsent == [kind |-> "absent", keys |-> {}, retryAfter |-> "None"]
DEmptyMap == [kind |-> "map", keys |-> {}, retryAfter |-> "None"]
DRetry == [kind |-> "map", keys |-> {"retryAfter"}, retryAfter |-> "60"]
DField == [kind |-> "map", keys |-> {"field"}, retryAfter |-> "None"]
DStr == [kind |-> "str", keys |-> {}, retryAfter |-> "None"]

Absent == "<absent>"

\* A parsed body: json is "object", "list", "string" or "invalid" (not JSON).
\* For an object, each field holds its value or Absent.
Body(json, error, code, details, success, data) ==
    [json |-> json, error |-> error, code |-> code, details |-> details,
     success |-> success, data |-> data]

NoBody == Body("none", Absent, Absent, DAbsent, Absent, Absent)
NotJson == Body("invalid", Absent, Absent, DAbsent, Absent, Absent)
JList == Body("list", Absent, Absent, DAbsent, Absent, Absent)
JStr == Body("string", Absent, Absent, DAbsent, Absent, Absent)
BEmpty == Body("object", Absent, Absent, DAbsent, Absent, Absent)
BErrRetry == Body("object", "boom", "E1", DRetry, Absent, Absent)
BErrField == Body("object", "boom", Absent, DField, "false", Absent)
BErrBadDetails == Body("object", "boom", "E1", DStr, Absent, Absent)
BOk == Body("object", Absent, Absent, DAbsent, "true", "dict")
BOkNoData == Body("object", Absent, Absent, DAbsent, "true", Absent)

Bodies == {NotJson, JList, JStr, BEmpty, BErrRetry, BErrField, BErrBadDetails,
           BOk, BOkNoData}

Statuses == {200, 299, 300, 400, 401, 403, 404, 429, 499, 500, 503, 599, 600}

\* What self._client.request does on one attempt.
Transport(kind, status, body) == [kind |-> kind, status |-> status, body |-> body]

TransportOutcomes ==
    {Transport("response", s, b) : s \in Statuses, b \in Bodies}
    \cup {Transport(k, 0, NoBody) : k \in {"timeout", "network", "http"}}

NoTransport == Transport("none", 0, NoBody)

----------------------------------------------------------------------------
(* Exceptions *)

Exc(type, message, code, details, retry_after) ==
    [type |-> type, message |-> message, code |-> code, details |-> details,
     retry_after |-> retry_after]

NoExc == Exc("none", "", "None", DEmptyMap, "n/a")

\* Python truth value of a details value: an empty mapping is falsy
Truthy(details) ==
    \/ details.kind = "str"
    \/ details.kind = "map" /\ details.keys # {}

\* atoshipError.__init__: self.details = details or {}
atoshipError_init(type, message, code, details) ==
    Exc(type, message, code, IF Truthy(details) THEN details ELSE DEmptyMap, "n/a")

\* an exception that is not part of the SDK's hierarchy
Foreign(type) == Exc(type, "", "None", DEmptyMap, "n/a")

\* outcomes of a call: a returned JSON value, a returned error object, a
\* returned typed envelope, or a raised exception
Return(val) == [kind |-> "return", val |-> val, exc |-> NoExc]
ReturnError(exc) == [kind |-> "error_object", val |-> NoBody, exc |-> exc]
Envelope(model, val) == [kind |-> model, val |-> val, exc |-> NoExc]
Raise(exc) == [kind |-> "raise", val |-> NoBody, exc |-> exc]
NoOutcome == [kind |-> "none", val |-> NoBody, exc |-> NoExc]

\* class hierarchy of exceptions.py (and the foreign exceptions' common base)
SdkErrorTypes == {"ValidationError", "AuthenticationError", "AuthorizationError",
                  "NotFoundError", "RateLimitError", "ServerError", "NetworkError",
                  "TimeoutError", "ConfigurationError"}

ForeignTypes == {"AttributeError", "TypeError", "PydanticValidationError"}

Bases(type) ==
    IF type \in SdkErrorTypes THEN {type, "atoshipError", "Exception"}
    ELSE IF type = "atoshipError" THEN {"atoshipError", "Exception"}
    ELSE IF type \in ForeignTypes THEN {type, "Exception"}
    ELSE {}

isinstance(e, cls) == cls \in Bases(e.type)

\* RateLimitError.__init__:
\*   self.retry_after = details.get('retryAfter') if details else None
\* a truthy details that is not a mapping has no .get: AttributeError
RateLimitError_init(message, code, details) ==
    IF ~Truthy(details) THEN
        ReturnError([atoshipError_init("RateLimitError", message, code, details)
                        EXCEPT !.retry_after = "None"])
    ELSE IF details.kind # "map" THEN Raise(Foreign("AttributeError"))
    ELSE ReturnError([atoshipError_init("RateLimitError", message, code, details)
                        EXCEPT !.retry_after =
                            IF "retryAfter" \in details.keys THEN details.retryAfter
                            ELSE "None"])

\* dict.get on the three keys read by create_error_from_response
get_error(response_data) ==
    IF response_data.error = Absent THEN "Unknown error" ELSE response_data.error
get_code(response_data) ==
    IF response_data.code = Absent THEN "None" ELSE response_data.code
get_details(response_data) ==
    IF response_data.details.kind = "absent" THEN DEmptyMap ELSE response_data.details

\* the dispatch with the server-error range starting after 500
ErrorClass_RangeOffByOne(status_code) ==
    IF status_code = 400 THEN "ValidationError"
    ELSE IF status_code = 401 THEN "AuthenticationError"
    ELSE IF status_code = 403 THEN "AuthorizationError"
    ELSE IF status_code = 404 THEN "NotFoundError"
    ELSE IF status_code = 429 THEN "RateLimitError"
    ELSE IF 500 < status_code /\ status_code < 600 THEN "ServerError"
    ELSE "atoshipError"

\* the dispatch without its 400 branch
ErrorClass_No400(status_code) ==
    IF status_code = 401 THEN "AuthenticationError"
    ELSE IF status_code = 403 THEN "AuthorizationError"
    ELSE IF status_code = 404 THEN "NotFoundError"
    ELSE IF status_code = 429 THEN "RateLimitError"
    ELSE IF 500 <= status_code /\ status_code < 600 THEN "ServerError"
    ELSE "atoshipError"

\* the status dispatch of create_error_from_response
ErrorClass(status_code) ==
    IF status_code = 400 THEN "ValidationError"
    ELSE IF status_code = 401 THEN "AuthenticationError"
    ELSE IF status_code = 403 THEN "AuthorizationError"
    ELSE IF status_code = 404 THEN "NotFoundError"
    ELSE IF status_code = 429 THEN "RateLimitError"
    ELSE IF 500 <= status_code /\ status_code < 600 THEN "ServerError"
    ELSE "atoshipError"

\* create_error_from_response: the call's outcome is the error object it
\* returns, or the exception it raises itself (response_data.get on a value
\* that is no dict)
create_error_from_response(status_code, response_data) ==
    IF response_data.json # "object" THEN Raise(Foreign("AttributeError"))
    ELSE LET message == get_error(response_data)
             code == get_code(response_data)
             details == get_details(response_data)
         IN  IF ErrorClass(status_code) = "RateLimitError"
             THEN RateLimitError_init(message, code, details)
             ELSE ReturnError(atoshipError_init(ErrorClass(status_code), message,
                                                code, details))

\* is_retriable_error answering True for every error of the SDK
is_retriable_error_AnySdkError(error) == isinstance(error, "atoshipError")

\* is_retriable_error with the rate-limit branch answering True
is_retriable_error_RateLimit(error) ==
    \/ isinstance(error, "NetworkError")
    \/ isinstance(error, "TimeoutError")
    \/ isinstance(error, "ServerError")
    \/ isinstance(error, "RateLimitError")

\* is_retriable_error
is_retriable_error(error) ==
    IF isinstance(error, "NetworkError") \/ isinstance(error, "TimeoutError") THEN TRUE
    ELSE IF isinstance(error, "ServerError") THEN TRUE
    ELSE IF isinstance(error, "RateLimitError") THEN FALSE
    ELSE FALSE

is_success_Only200(status_code) == status_code = 200

\* httpx.Response.is_success
is_success(status_code) == 200 <= status_code /\ status_code < 300

\* response.json() in _handle_response, with its except clause
parse_json(body) ==
    IF body.json = "invalid"
    THEN Body("object", "Invalid JSON response", Absent, DAbsent, Absent, Absent)
    ELSE body

\* atoshipSDK._handle_response
handle_response(status_code, body) ==
    LET response_data == parse_json(body)
    IN  IF is_success(status_code) THEN Return(response_data)
        ELSE LET error == create_error_from_response(status_code, response_data)
             IN  Raise(error.exc)

\* the try/except of the inner make_request of _make_request: one transport
\* invocation and the handling of what it answers
make_request(t) ==
    IF t.kind = "timeout"
    THEN Raise(atoshipError_init("TimeoutError", "Request timed out", "None", DEmptyMap))
    ELSE IF t.kind = "network"
    THEN Raise(atoshipError_init("NetworkError", "Network error", "None", DEmptyMap))
    ELSE IF t.kind = "http"
    THEN Raise(atoshipError_init("NetworkError", "HTTP error", "None", DEmptyMap))
    ELSE handle_response(t.status, t.body)

\* the public methods: each ends with APIResponse(**response_data) or
\* PaginatedResponse(**response_data)
Methods == {"get_profile", "list_orders"}

ResponseModel(m) == IF m = "list_orders" THEN "PaginatedResponse" ELSE "APIResponse"

\* APIResponse(**response_data) / PaginatedResponse(**response_data):
\* ** on a value that is no mapping is a TypeError; a mapping without the
\* required fields is rejected by pydantic
construct_response(model, response_data) ==
    IF response_data.json # "object" THEN Raise(Foreign("TypeError"))
    ELSE IF response_data.success = Absent THEN Raise(Foreign("PydanticValidationError"))
    ELSE IF model = "PaginatedResponse" /\ response_data.data # "dict"
    THEN Raise(Foreign("PydanticValidationError"))
    ELSE Envelope(model, response_data)

\* the tail of a public method, given the outcome of _make_request
public_method(m, r) ==
    IF r.kind = "raise" THEN r ELSE construct_response(ResponseModel(m), r.val)

\* the endpoint a public method passes to _make_request
Endpoint(m) ==
    IF m = "get_profile" THEN "/api/profile"
    ELSE IF m = "list_orders" THEN "/api/orders"
    ELSE IF m = "create_order" THEN "/api/orders"
    ELSE IF m = "update_order" THEN "/api/orders/{order_id}"
    ELSE IF m = "create_orders_batch" THEN "/api/orders/batch"
    ELSE IF m = "track_multiple" THEN "/api/tracking/batch"
    ELSE IF m = "get_rates" THEN "/api/shipping/rates"
    ELSE IF m = "compare_rates" THEN "/api/shipping/rates/compare"
    ELSE "none"

\* one invocation of _make_request(method, endpoint, data)
Request(http_method, endpoint, data) ==
    [method |-> http_method, endpoint |-> endpoint, data |-> data]

\* no argument: the public method takes none, or no call is in progress
NoArg == [kind |-> "none", items |-> <<>>]

\* no function has been applied on its own yet
NoCall == [fn |-> "none", input |-> <<>>, out |-> <<>>]

\* what the transcript keeps of one attempt
Tag(t) == [kind |-> t.kind, status |-> t.status]

----------------------------------------------------------------------------
(* atoshipSDK.__init__ *)

\* the api_key argument as Python sees it: None, a string, or a value of another type
KeyNone == [t |-> "None", s |-> <<>>]

KeyStr(s) == [t |-> "str", s |-> s]

KeyInt == [t |-> "int", s |-> <<>>]

\* "not api_key" of a string: the empty string is falsy
key_is_falsy(api_key) == api_key.t = "None" \/ (api_key.t = "str" /\ api_key.s = <<>>)

DEFAULT_BASE_URL == <<"h", "t", "t", "p", "s", ":", "/", "/", "a", "p", "i", ".", "a", "t", "o", "s", "h", "i", "p", ".", "c", "o", "m">>

DEFAULT_TIMEOUT == 30

\* str.rstrip('/')
RECURSIVE rstrip_slash(_)
rstrip_slash(s) ==
    IF s # <<>> /\ s[Len(s)] = "/" THEN rstrip_slash(SubSeq(s, 1, Len(s) - 1)) ELSE s

\* no atoshipSDK object exists
NoSdk == [constructed |-> FALSE]

ConfigurationError(message) == [raised |-> TRUE, type |-> "ConfigurationError", message |-> message]

Constructed(object, max_retries) == [raised |-> FALSE, sdk |-> object, max_retries |-> max_retries]

\* the mutation of atoshipSDK_init: a value of any type passes when it is truthy
atoshipSDK_init_NoTypeCheck(api_key, base_url, timeout, max_retries, debug) ==
    IF key_is_falsy(api_key)
    THEN ConfigurationError("API key is required and must be a string")
    ELSE Constructed([constructed |-> TRUE,
                      api_key |-> api_key,
                      base_url |-> rstrip_slash(base_url),
                      timeout |-> timeout,
                      debug |-> debug,
                      client_timeout |-> timeout,
                      client_api_key |-> api_key], max_retries)

\* atoshipSDK.__init__: client_timeout and client_api_key are the timeout and the X-API-Key
\* header the httpx.Client is built with
atoshipSDK_init(api_key, base_url, timeout, max_retries, debug) ==
    IF key_is_falsy(api_key) \/ api_key.t # "str"
    THEN ConfigurationError("API key is required and must be a string")
    ELSE Constructed([constructed |-> TRUE,
                      api_key |-> api_key,
                      base_url |-> rstrip_slash(base_url),
                      timeout |-> timeout,
                      debug |-> debug,
                      client_timeout |-> timeout,
                      client_api_key |-> api_key], max_retries)

\* the key the callers of the model construct their client with
K_test_key == <<"t", "e", "s", "t", "-", "k", "e", "y">>

----------------------------------------------------------------------------
(* State machine *)

Init ==
    /\ sdk = atoshipSDK_init(KeyStr(K_test_key), DEFAULT_BASE_URL, DEFAULT_TIMEOUT,
                             DEFAULT_MAX_RETRIES, FALSE).sdk
    /\ self_max_retries \in 0..MaxCfgRetries
    /\ pc = "idle"
    /\ method = "none"
    /\ attempt = 0
    /\ last_exception = NoExc
    /\ calls = 0
    /\ sleeps = <<>>
    /\ transcript = <<>>
    /\ last_response = NoTransport
    /\ ret = NoOutcome
    /\ result = NoOutcome
    /\ arg = NoArg
    /\ requests = <<>>
    /\ fcall = NoCall

\* atoshipSDK.update_config(max_retries=n)
update_config(n) ==
    /\ pc = "idle"
    /\ self_max_retries' = n
    /\ UNCHANGED <<sdk, pc, method, attempt, last_exception, calls, sleeps, transcript,
                   last_response, ret, result, arg, requests, fcall>>

\* the caller invokes a public method; _make_request enters the wrapper
Call(m) ==
    /\ pc = "idle"
    /\ pc' = "retrying"
    /\ method' = m
    /\ attempt' = 0
    /\ last_exception' = NoExc
    /\ calls' = 0
    /\ sleeps' = <<>>
    /\ transcript' = <<>>
    /\ last_response' = NoTransport
    /\ ret' = NoOutcome
    /\ result' = NoOutcome
    /\ arg' = NoArg
    /\ requests' = <<Request("GET", Endpoint(m), NoArg)>>
    /\ UNCHANGED <<sdk, self_max_retries, fcall>>

\* a wrapper that remembers the first exception instead of the last
keep_exception_First(old, e) == IF old = NoExc THEN e ELSE old

\* last_exception = e
keep_exception(old, e) == e

\* a delay that grows by base_delay each time
backoff_delay_Linear(base_delay, k) == base_delay * (k + 1)

\* delay = base_delay * (2 ** attempt)
backoff_delay(base_delay, k) == base_delay * (2 ^ k)

\* a loop that grants one attempt more
is_last_attempt_OneMore(k, max_retries) == k = max_retries + 1

\* if attempt == max_retries: break
is_last_attempt(k, max_retries) == k = max_retries

\* one iteration of the for loop of retry_with_backoff.wrapper around func,
\* where func() answers o; when the loop ends, _make_request ends with it and
\* the public method wraps what it got
wrapper_iteration(max_retries, base_delay, o) ==
    IF o.kind # "raise"
    THEN /\ ret' = o
         /\ result' = public_method(method, o)
         /\ pc' = "done"
         /\ UNCHANGED <<attempt, last_exception, sleeps>>
    ELSE /\ last_exception' = keep_exception(last_exception, o.exc)
         /\ IF is_last_attempt(attempt, max_retries) \/ ~is_retriable_error(o.exc)
            THEN /\ ret' = Raise(last_exception')
                 /\ result' = public_method(method, Raise(last_exception'))
                 /\ pc' = "done"
                 /\ UNCHANGED <<attempt, sleeps>>
            ELSE /\ sleeps' = Append(sleeps, backoff_delay(base_delay, attempt))
                 /\ attempt' = attempt + 1
                 /\ UNCHANGED <<pc, ret, result>>

\* one attempt of _make_request: make_request is decorated with a bare
\* @retry_with_backoff, so the wrapper runs with its default parameters
Attempt(t) ==
    /\ pc = "retrying"
    /\ calls' = calls + 1
    /\ transcript' = Append(transcript, Tag(t))
    /\ last_response' = t
    /\ wrapper_iteration(DEFAULT_MAX_RETRIES, DEFAULT_BASE_DELAY, make_request(t))
    /\ UNCHANGED <<sdk, self_max_retries, method, arg, requests, fcall>>

\* the caller has received the result of the call
Deliver ==
    /\ pc = "done"
    /\ pc' = "idle"
    /\ method' = "none"
    /\ attempt' = 0
    /\ last_exception' = NoExc
    /\ calls' = 0
    /\ sleeps' = <<>>
    /\ transcript' = <<>>
    /\ last_response' = NoTransport
    /\ ret' = NoOutcome
    /\ result' = NoOutcome
    /\ arg' = NoArg
    /\ requests' = <<>>
    /\ UNCHANGED <<sdk, self_max_retries, fcall>>

Next ==
    \/ \E n \in 0..MaxCfgRetries : update_config(n)
    \/ \E m \in Methods : Call(m)
    \/ \E t \in TransportOutcomes : Attempt(t)
    \/ Deliver

Spec == Init /\ [][Next]_vars

TypeOK ==
    /\ self_max_retries \in 0..MaxCfgRetries
    /\ pc \in {"idle", "retrying", "done"}
    /\ calls \in Nat
    /\ Len(transcript) = calls

----------------------------------------------------------------------------
(* Vocabulary of the claims *)

Answered(i, status) ==
    /\ i <= Len(transcript)
    /\ transcript[i].kind = "response"
    /\ transcript[i].status = status

AnsweredSuccess(i) ==
    /\ i <= Len(transcript)
    /\ transcript[i].kind = "response"
    /\ transcript[i].status >= 200
    /\ transcript[i].status <= 299

LastIsResponse == last_response.kind = "response"

\* the latest attempt was answered with an error status
LastIsErrorResponse ==
    /\ LastIsResponse
    /\ ~(last_response.status >= 200 /\ last_response.status <= 299)

\* the body of the latest response is a JSON object whose details, when
\* present, is a mapping: the declared parameter types of
\* create_error_from_response and atoshipError.__init__
LastBodyTyped ==
    /\ last_response.body.json = "object"
    /\ last_response.body.details.kind \in {"absent", "map"}

SdkEnvelopes == {"APIResponse", "PaginatedResponse"}

----------------------------------------------------------------------------
(* C1 *)

\* C1: a request whose first two attempts are answered with HTTP 503 and whose
\* third attempt is answered with a 2xx status has ended after exactly three
\* transport invocations and two sleeps, and _make_request has returned the
\* parsed body of the third response (the body itself when it is JSON).
C1_RetryThenSuccess ==
    (Answered(1, 503) /\ Answered(2, 503) /\ AnsweredSuccess(3)) =>
        /\ pc = "done"
        /\ calls = 3
        /\ Len(transcript) = 3
        /\ Len(sleeps) = 2
        /\ ret.kind = "return"
        /\ last_response.body.json # "invalid" => ret.val = last_response.body
        /\ last_response.body.json = "invalid" =>
               ret.val.json = "object" /\ ret.val.error = "Invalid JSON response"

C1_Witness ==
    /\ pc = "done"
    /\ Answered(1, 503) /\ Answered(2, 503) /\ Answered(3, 200)
    /\ calls = 3
    /\ ret = Return(BOk)

----------------------------------------------------------------------------
(* C2 *)

\* C2 as stated: an attempt answered with HTTP 429 while retries remain
\* (under the configured limit and under the limit the wrapper runs with) is
\* followed by another attempt, so no call ends on such an attempt.
C2_RateLimitRetried ==
    ~( /\ pc = "done"
       /\ Answered(Len(transcript), 429)
       /\ calls <= self_max_retries
       /\ calls <= DEFAULT_MAX_RETRIES )

\* C2 amended: HTTP 429 is not retriable.  An attempt answered with HTTP 429
\* is the last attempt of its call: the call has ended, nothing was slept
\* after it, and no earlier attempt of any call was answered with 429.
C2_RateLimitNotRetried ==
    \A i \in 1..Len(transcript) :
        Answered(i, 429) =>
            /\ i = Len(transcript)
            /\ pc = "done"
            /\ ret.kind = "raise"
            /\ Len(sleeps) = i - 1

C2_Witness ==
    /\ pc = "done"
    /\ Answered(1, 503)
    /\ Answered(2, 429)
    /\ calls = 2
    /\ ret.exc.type = "RateLimitError"
    /\ ret.exc.retry_after = "60"

----------------------------------------------------------------------------
(* C3 *)

NonRetriableStatuses == {s \in Statuses : s >= 400 /\ s <= 499 /\ s # 429}

\* the class each non-retriable status is documented to map to
C3_Mapped(status) ==
    IF status = 400 THEN "ValidationError"
    ELSE IF status = 401 THEN "AuthenticationError"
    ELSE IF status = 403 THEN "AuthorizationError"
    ELSE IF status = 404 THEN "NotFoundError"
    ELSE "atoshipError"

\* C3: a request answered with a 4xx status other than 429 has ended after
\* exactly one transport invocation and no sleep, with an exception raised
\* to the caller as _make_request raised it; when the body is a JSON object
\* or is not JSON at all, that exception is the error the status maps to.
\* (A JSON body that is no object makes the mapping itself raise: see C9.)
C3_NonRetriableFailsFast ==
    (\E s \in NonRetriableStatuses : Answered(1, s)) =>
        /\ pc = "done"
        /\ calls = 1
        /\ sleeps = <<>>
        /\ result.kind = "raise"
        /\ result = ret
        /\ last_response.body.json \in {"object", "invalid"} =>
               result.exc.type = C3_Mapped(transcript[1].status)

C3_Witness ==
    /\ pc = "done"
    /\ Answered(1, 404)
    /\ calls = 1
    /\ sleeps = <<>>
    /\ result.kind = "raise"
    /\ result.exc.type = "NotFoundError"

----------------------------------------------------------------------------
(* C4 *)

\* C4 as stated: a call is attempted at most max_retries + 1 times, where
\* max_retries is the value configured on the SDK instance.
C4_AttemptsBoundedByConfig == calls <= self_max_retries + 1

\* what the code bounds the attempts by: the wrapper's default
C4_AttemptsBoundedByDefault == calls <= DEFAULT_MAX_RETRIES + 1

----------------------------------------------------------------------------
(* C5 *)

\* C5: when a call has used up its attempts and the last attempt failed as
\* well, the caller is raised exactly the exception of the last attempt:
\* the one make_request raised for the latest transport outcome.
C5_LastErrorSurfaced ==
    (/\ pc = "done"
     /\ calls = DEFAULT_MAX_RETRIES + 1
     /\ make_request(last_response).kind = "raise") =>
        /\ ret = Raise(make_request(last_response).exc)
        /\ result = ret

\* the first attempt timed out, the last one was answered 503: the caller
\* gets the ServerError of the last attempt
C5_Witness ==
    /\ pc = "done"
    /\ calls = DEFAULT_MAX_RETRIES + 1
    /\ transcript[1].kind = "timeout"
    /\ Answered(calls, 503)
    /\ last_response.body = BErrRetry
    /\ result.kind = "raise"
    /\ result.exc.type = "ServerError"
    /\ result.exc.message = "boom"

----------------------------------------------------------------------------
(* C6 *)

\* C6 as stated: when the transport times out on every attempt of a call,
\* the exception that reaches the caller is an instance of NetworkError.
C6_TimeoutIsNetworkError ==
    (/\ pc = "done"
     /\ calls >= 1
     /\ \A i \in 1..Len(transcript) : transcript[i].kind = "timeout") =>
        /\ result.kind = "raise"
        /\ isinstance(result.exc, "NetworkError")

----------------------------------------------------------------------------
(* C7 *)

FiveHundreds == {s \in Statuses : s >= 500 /\ s <= 599}

\* C7: for an error response whose body is a JSON object (details, when
\* present, a mapping), the error built for the attempt has the class of the
\* status (401 AuthenticationError, 403 AuthorizationError, 404
\* NotFoundError, 429 RateLimitError, 500..599 ServerError), a 429's
\* retry_after is details.retryAfter when present and None otherwise, and
\* the error carries the body's error message, code and details.
C7_StatusMapping ==
    (LastIsErrorResponse /\ LastBodyTyped) =>
        LET s == last_response.status
            b == last_response.body
            e == last_exception
        IN  /\ s = 401 => e.type = "AuthenticationError"
            /\ s = 403 => e.type = "AuthorizationError"
            /\ s = 404 => e.type = "NotFoundError"
            /\ s = 429 => /\ e.type = "RateLimitError"
                          /\ "retryAfter" \in b.details.keys =>
                                 e.retry_after = b.details.retryAfter
                          /\ "retryAfter" \notin b.details.keys =>
                                 e.retry_after = "None"
            /\ s \in FiveHundreds => e.type = "ServerError"
            /\ b.error # Absent => e.message = b.error
            /\ b.code # Absent => e.code = b.code
            /\ b.details.kind = "map" => e.details = b.details
            /\ b.details.kind = "absent" => e.details = DEmptyMap

C7_Witness ==
    /\ pc = "done"
    /\ Answered(1, 429)
    /\ last_response.body = BErrRetry
    /\ result.kind = "raise"
    /\ result.exc.type = "RateLimitError"
    /\ result.exc.retry_after = "60"
    /\ result.exc.message = "boom"
    /\ result.exc.code = "E1"
    /\ result.exc.details = DRetry

----------------------------------------------------------------------------
(* C8 *)

SpecificStatuses == {401, 403, 404, 429} \cup FiveHundreds

\* C8 as stated, for bodies that are JSON objects: no error response is
\* mapped to ValidationError, and every status outside {401, 403, 404, 429,
\* 500..599} is mapped to the generic base error.
C8_ValidationErrorClientSideOnly ==
    (LastIsErrorResponse /\ LastBodyTyped) =>
        /\ last_exception.type # "ValidationError"
        /\ last_response.status \notin SpecificStatuses =>
               last_exception.type = "atoshipError"

\* C8 amended: HTTP 400, and no other status, is mapped to ValidationError;
\* for a body that is a JSON object, 400 always is, and every status outside
\* {400, 401, 403, 404, 429, 500..599} is mapped to the generic base error.
C8_Only400IsValidationError ==
    /\ (LastIsResponse /\ last_exception.type = "ValidationError") =>
           last_response.status = 400
    /\ (LastIsErrorResponse /\ LastBodyTyped) =>
           /\ last_response.status = 400 => last_exception.type = "ValidationError"
           /\ last_response.status \notin (SpecificStatuses \cup {400}) =>
                  last_exception.type = "atoshipError"

C8_Witness ==
    /\ pc = "done"
    /\ Answered(1, 400)
    /\ last_response.body = BErrField
    /\ calls = 1
    /\ result.kind = "raise"
    /\ result.exc.type = "ValidationError"

----------------------------------------------------------------------------
(* C9 *)

\* C9 as stated: create_error_from_response never raises, so whatever the
\* status and the parsed body of an error response, the exception of the
\* attempt is the error object it returned: an atoshipError.
C9_MappingTotal ==
    LastIsErrorResponse => isinstance(last_exception, "atoshipError")

----------------------------------------------------------------------------
(* C10 *)

\* C10 as stated: a public method ends either by returning a typed envelope
\* or by raising an atoshipError, whatever the server answered.
C10_TypedOutcome ==
    pc = "done" =>
        \/ result.kind \in SdkEnvelopes
        \/ result.kind = "raise" /\ isinstance(result.exc, "atoshipError")

----------------------------------------------------------------------------
(* src/atoship.py: AtoshipClient, the resource-facade client *)

\* the value under 'error' in a parsed body: absent, a string, a mapping
\* (with or without 'message' and 'code'), or null
ErrAbsent == [t |-> "absent", message |-> Absent, code |-> Absent]
ErrStr(s) == [t |-> "str", message |-> s, code |-> Absent]
ErrDict(message, code) == [t |-> "dict", message |-> message, code |-> code]
ErrNull == [t |-> "null", message |-> Absent, code |-> Absent]

\* a response body as response.json() sees it
ClientBody(json, success, error) == [json |-> json, success |-> success, error |-> error]

ClientBodies ==
    { ClientBody("object", s, e) :
        s \in BOOLEAN,
        e \in { ErrAbsent, ErrStr("Not found"), ErrDict("Not found", "NOT_FOUND"),
                ErrDict(Absent, Absent), ErrNull } }
    \cup { ClientBody("list", FALSE, ErrAbsent), ClientBody("invalid", FALSE, ErrAbsent) }

\* the documented response envelope: an object whose 'error', if any, is a string
FollowsEnvelope(body) == body.json = "object" /\ body.error.t \in {"absent", "str"}

\* what session.request does: answers, or raises a requests exception.
\* POST is not retried by the mounted urllib3 Retry, so every status can arrive.
ClientExchanges ==
    { [kind |-> "response", status |-> st, body |-> b] : st \in Statuses, b \in ClientBodies }
    \cup { [kind |-> k, status |-> 0, body |-> ClientBody("invalid", FALSE, ErrAbsent)] :
             k \in {"ConnectionError", "Timeout", "RetryError"} }

\* AtoshipError(message, code=None, status=None); status 0 stands for None
AtoshipError(message, code, status) ==
    [type |-> "AtoshipError", message |-> message, code |-> code, status |-> status]

\* an exception that is not an AtoshipError
ClientForeign(type) == [type |-> type, message |-> "", code |-> "None", status |-> 0]

ClientReturn(body) == [kind |-> "return", val |-> body, exc |-> ClientForeign("none")]
ClientRaise(exc) == [kind |-> "raise", val |-> ClientBody("invalid", FALSE, ErrAbsent), exc |-> exc]

\* requests.Response.ok: raise_for_status() does not raise
response_ok(status) == ~(status >= 400 /\ status < 600)

\* error.get(key, default) for the value found under 'error'
error_get(v, default) == IF v = Absent THEN default ELSE v

\* AtoshipClient.request: the set of outcomes for one exchange. A body that is
\* not JSON makes response.json() raise requests' JSONDecodeError (a
\* RequestException) or, with an older requests, a plain ValueError.
AtoshipClient_request(x) ==
    IF x.kind # "response"
    THEN { ClientRaise(AtoshipError("Request failed: " \o x.kind, "None", 0)) }
    ELSE IF x.body.json = "invalid"
    THEN { ClientRaise(AtoshipError("Request failed: JSONDecodeError", "None", 0)),
           ClientRaise(ClientForeign("ValueError")) }
    ELSE IF response_ok(x.status)
    THEN { ClientReturn(x.body) }
    ELSE IF x.body.json # "object"
    THEN { ClientRaise(ClientForeign("AttributeError")) }
    ELSE IF x.body.error.t \in {"str", "null"}
    THEN { ClientRaise(ClientForeign("AttributeError")) }
    ELSE { ClientRaise(AtoshipError(error_get(x.body.error.message, "API Error"),
                                    error_get(x.body.error.code, "None"),
                                    x.status)) }

\* a state in which no call is in progress and the retry configuration is the default
FnInit == Init /\ self_max_retries = DEFAULT_MAX_RETRIES

\* the caller takes the outcome of the function it applied
take_outcome ==
    /\ fcall.fn # "none"
    /\ fcall' = NoCall
    /\ UNCHANGED sdkvars

\* one call of AtoshipClient.request
request ==
    /\ fcall.fn = "none"
    /\ \E x \in ClientExchanges :
          fcall' \in { [fn |-> "request", input |-> x, out |-> o] : o \in AtoshipClient_request(x) }
    /\ UNCHANGED sdkvars

NextClient ==
    \/ request
    \/ take_outcome

SpecClient == FnInit /\ [][NextClient]_vars

----------------------------------------------------------------------------
(* C11 *)

\* C11 as stated: every response of AtoshipClient.request with a status
\* outside 200..299 and a body that follows the documented envelope (an
\* object whose 'error' is a string or absent) ends in one AtoshipError;
\* no other exception type escapes and nothing is returned.
C11_EnvelopeErrorIsAtoshipError ==
    (/\ fcall.fn = "request"
     /\ fcall.input.kind = "response"
     /\ ~(fcall.input.status >= 200 /\ fcall.input.status < 300)
     /\ FollowsEnvelope(fcall.input.body))
    => (fcall.out.kind = "raise" /\ fcall.out.exc.type = "AtoshipError")

----------------------------------------------------------------------------
(* src/atoship/utils.py: strings, as sequences of one-character strings *)

Digits == {"0", "1", "2", "3", "4", "5", "6", "7", "8", "9"}

LowerLetters ==
    <<"a", "b", "c", "d", "e", "f", "g", "h", "i", "j", "k", "l", "m",
      "n", "o", "p", "q", "r", "s", "t", "u", "v", "w", "x", "y", "z">>

UpperLetters ==
    <<"A", "B", "C", "D", "E", "F", "G", "H", "I", "J", "K", "L", "M",
      "N", "O", "P", "Q", "R", "S", "T", "U", "V", "W", "X", "Y", "Z">>

\* [A-Z]
IsUpper(c) == \E i \in DOMAIN UpperLetters : UpperLetters[i] = c

\* \s, on the characters the payloads use
IsSpace(c) == c = " "

\* \d
IsDigit(c) == c \in Digits

\* str.upper() on one character
upper_char(c) ==
    IF \E i \in DOMAIN LowerLetters : LowerLetters[i] = c
    THEN UpperLetters[CHOOSE i \in DOMAIN LowerLetters : LowerLetters[i] = c]
    ELSE c

\* str.upper()
upper(s) == [i \in 1..Len(s) |-> upper_char(s[i])]

\* str.strip(): drop leading and trailing whitespace
strip_LeadingOnly(s) ==
    IF \A i \in 1..Len(s) : IsSpace(s[i]) THEN <<>>
    ELSE SubSeq(s, CHOOSE i \in 1..Len(s) : ~IsSpace(s[i]) /\ \A j \in 1..(i - 1) : IsSpace(s[j]),
                Len(s))
strip(s) ==
    IF \A i \in 1..Len(s) : IsSpace(s[i]) THEN <<>>
    ELSE SubSeq(s,
                CHOOSE i \in 1..Len(s) : ~IsSpace(s[i]) /\ \A j \in 1..(i - 1) : IsSpace(s[j]),
                CHOOSE i \in 1..Len(s) : ~IsSpace(s[i]) /\ \A j \in (i + 1)..Len(s) : IsSpace(s[j]))

\* format_tracking_number
format_tracking_number(tracking_number) == upper(strip(tracking_number))

\* validate_email: ^[^\s@]+@[^\s@]+\.[^\s@]+$
validate_email(email) ==
    \E i \in 1..Len(email), j \in 1..Len(email) :
        /\ 1 < i /\ i + 1 < j /\ j < Len(email)
        /\ email[i] = "@"
        /\ email[j] = "."
        /\ \A k \in 1..Len(email) : k # i => (~IsSpace(email[k]) /\ email[k] # "@")

\* validate_phone: 10 to 15 digits once every non-digit is removed
MIN_PHONE_DIGITS == 10
MAX_PHONE_DIGITS == 15
validate_phone(phone) ==
    LET digits == SelectSeq(phone, IsDigit)
    IN  MIN_PHONE_DIGITS <= Len(digits) /\ Len(digits) <= MAX_PHONE_DIGITS

\* ^\d{5}(-\d{4})?$
MatchUS(s) ==
    \/ Len(s) = 5 /\ \A i \in 1..5 : IsDigit(s[i])
    \/ /\ Len(s) = 10
       /\ \A i \in 1..5 : IsDigit(s[i])
       /\ s[6] = "-"
       /\ \A i \in 7..10 : IsDigit(s[i])

\* ^[A-Z]\d[A-Z]\s?\d[A-Z]\d$
MatchCA(s) ==
    \E sp \in {0, 1} :
        /\ Len(s) = 6 + sp
        /\ IsUpper(s[1]) /\ IsDigit(s[2]) /\ IsUpper(s[3])
        /\ sp = 1 => IsSpace(s[4])
        /\ IsDigit(s[4 + sp]) /\ IsUpper(s[5 + sp]) /\ IsDigit(s[6 + sp])

\* ^[A-Z]{1,2}\d[A-Z\d]?\s?\d[A-Z]{2}$
MatchGB(s) ==
    \E a \in {1, 2}, b \in {0, 1}, sp \in {0, 1} :
        /\ Len(s) = a + 1 + b + sp + 3
        /\ \A i \in 1..a : IsUpper(s[i])
        /\ IsDigit(s[a + 1])
        /\ b = 1 => (IsUpper(s[a + 2]) \/ IsDigit(s[a + 2]))
        /\ sp = 1 => IsSpace(s[a + 1 + b + 1])
        /\ IsDigit(s[a + 1 + b + sp + 1])
        /\ IsUpper(s[a + 1 + b + sp + 2])
        /\ IsUpper(s[a + 1 + b + sp + 3])

\* ^[A-Z0-9\s-]{3,10}$
MatchOther(s) ==
    /\ 3 <= Len(s) /\ Len(s) <= 10
    /\ \A i \in 1..Len(s) : IsUpper(s[i]) \/ IsDigit(s[i]) \/ IsSpace(s[i]) \/ s[i] = "-"

\* validate_postal_code(postal_code, country)
validate_postal_code(postal_code, country) ==
    LET code == upper(strip(postal_code))
    IN  IF upper(country) = <<"U", "S">> THEN MatchUS(code)
        ELSE IF upper(country) = <<"C", "A">> THEN MatchCA(code)
        ELSE IF upper(country) = <<"G", "B">> THEN MatchGB(code)
        ELSE MatchOther(code)

----------------------------------------------------------------------------
(* src/atoship/utils.py: validate_order_data and validate_order_item *)

\* a Python value found under a key: its type, its characters if it is a
\* string, its number if it is numeric (a float is held in tenths; True is 1)
Val(t, s, n) == [t |-> t, s |-> s, n |-> n]
VAbsent == Val("absent", <<>>, 0)
VNone == Val("none", <<>>, 0)
VStr(s) == Val("str", s, 0)
VInt(n) == Val("int", <<>>, n)
VFloat(tenths) == Val("float", <<>>, tenths)
VBool(b) == Val("bool", <<>>, IF b THEN 1 ELSE 0)

\* key in mapping
Has(v) == v.t # "absent"

\* bool(value): None, "", 0, 0.0 and False are falsy
bool_of(v) ==
    IF v.t = "none" THEN FALSE
    ELSE IF v.t = "str" THEN Len(v.s) > 0
    ELSE v.n # 0

\* the value under 'items': a list of items, or something else
ItemsVal(t, elems) == [t |-> t, elems |-> elems]

\* bool(order_data['items'])
items_bool_of(v) == v.t \in {"list", "str"} /\ Len(v.elems) > 0

\* str(n) for a natural number
DigitChars == <<"0", "1", "2", "3", "4", "5", "6", "7", "8", "9">>
RECURSIVE IntToStr(_)
IntToStr(n) ==
    IF n < 10 THEN DigitChars[n + 1]
    ELSE IntToStr(n \div 10) \o DigitChars[(n % 10) + 1]

\* one collected error: the item it belongs to (0: the order itself), the
\* field it is about, and its text after the item prefix
Error(item, field, text) == [item |-> item, field |-> field, text |-> text]

\* f"'{field}' is required"
RequiredError(item, field) == Error(item, field, "'" \o field \o "' is required")

\* the error string: f"{prefix}: ..." with prefix = f"Item {index + 1}" for an item's errors
render(e) ==
    IF e.item = 0 THEN e.text
    ELSE "Item " \o IntToStr(e.item) \o ": " \o e.text

\* what a validation call does: returns its error list, or raises
Errors(errors) == [kind |-> "return", errors |-> errors, exc |-> "none"]
Raises(exc) == [kind |-> "raise", errors |-> <<>>, exc |-> exc]

\* run two steps of a function body in order: the first to raise ends the call
Then_ShortCircuit(a, b) ==
    IF a.kind = "raise" THEN a
    ELSE IF Len(a.errors) > 0 THEN a
    ELSE b
Then(a, b) ==
    IF a.kind = "raise" THEN a
    ELSE IF b.kind = "raise" THEN b
    ELSE Errors(a.errors \o b.errors)

item_required_fields == <<"name", "sku", "quantity", "unitPrice", "weight", "weightUnit">>

valid_units == { <<"l", "b">>, <<"k", "g">>, <<"o", "z">>, <<"g">> }

\* isinstance(v, int); bool is a subclass of int
is_int(v) == v.t \in {"int", "bool"}

\* isinstance(v, (int, float))
is_number_IntOnly(v) == v.t \in {"int", "bool"}
is_number(v) == v.t \in {"int", "bool", "float"}

\* the item's required-fields loop
item_missing(item, field) == ~Has(item[field]) \/ item[field].t = "none"

\* validate_order_item(item, index)
validate_order_item(item, index) ==
    IF item.t \in {"none", "int"} THEN Raises("TypeError")
    ELSE IF item.t # "dict"
    THEN Errors([i \in 1..Len(item_required_fields) |->
                    RequiredError(index + 1, item_required_fields[i])])
    ELSE LET missing == SelectSeq(item_required_fields, LAMBDA f : item_missing(item, f))
             required == [i \in 1..Len(missing) |-> RequiredError(index + 1, missing[i])]
             quantity ==
                 IF Has(item.quantity) /\ (~is_int(item.quantity) \/ item.quantity.n <= 0)
                 THEN <<Error(index + 1, "quantity", "quantity must be a positive integer")>>
                 ELSE <<>>
             unitPrice ==
                 IF Has(item.unitPrice) /\ (~is_number(item.unitPrice) \/ item.unitPrice.n <= 0)
                 THEN <<Error(index + 1, "unitPrice", "unitPrice must be a positive number")>>
                 ELSE <<>>
             weight ==
                 IF Has(item.weight) /\ (~is_number(item.weight) \/ item.weight.n <= 0)
                 THEN <<Error(index + 1, "weight", "weight must be a positive number")>>
                 ELSE <<>>
             weightUnit ==
                 IF Has(item.weightUnit)
                    /\ ~(item.weightUnit.t = "str" /\ item.weightUnit.s \in valid_units)
                 THEN <<Error(index + 1, "weightUnit",
                              "weightUnit must be one of ['lb', 'kg', 'oz', 'g']")>>
                 ELSE <<>>
         IN  Errors(required \o quantity \o unitPrice \o weight \o weightUnit)

required_fields ==
    <<"orderNumber", "recipientName", "recipientStreet1", "recipientCity",
      "recipientState", "recipientPostalCode", "recipientCountry", "items">>

\* field not in order_data or not order_data[field]
order_missing(order_data, field) ==
    IF field = "items"
    THEN ~Has(order_data.items) \/ ~items_bool_of(order_data.items)
    ELSE ~Has(order_data[field]) \/ ~bool_of(order_data[field])

\* the loop over the items, from position index on
RECURSIVE validate_items(_, _)
validate_items(elems, index) ==
    IF index >= Len(elems) THEN Errors(<<>>)
    ELSE Then(validate_order_item(elems[index + 1], index), validate_items(elems, index + 1))

\* validate_order_data(order_data)
validate_order_data(order_data) ==
    LET missing == SelectSeq(required_fields, LAMBDA f : order_missing(order_data, f))
        required == Errors([i \in 1..Len(missing) |-> RequiredError(0, missing[i])])
        email ==
            IF Has(order_data.recipientEmail) /\ bool_of(order_data.recipientEmail)
            THEN IF order_data.recipientEmail.t # "str" THEN Raises("TypeError")
                 ELSE IF ~validate_email(order_data.recipientEmail.s)
                 THEN Errors(<<Error(0, "recipientEmail", "Invalid recipient email format")>>)
                 ELSE Errors(<<>>)
            ELSE Errors(<<>>)
        phone ==
            IF Has(order_data.recipientPhone) /\ bool_of(order_data.recipientPhone)
            THEN IF order_data.recipientPhone.t # "str" THEN Raises("TypeError")
                 ELSE IF ~validate_phone(order_data.recipientPhone.s)
                 THEN Errors(<<Error(0, "recipientPhone", "Invalid recipient phone format")>>)
                 ELSE Errors(<<>>)
            ELSE Errors(<<>>)
        postal ==
            IF Has(order_data.recipientPostalCode) /\ Has(order_data.recipientCountry)
            THEN IF order_data.recipientPostalCode.t # "str"
                    \/ order_data.recipientCountry.t # "str"
                 THEN Raises("AttributeError")
                 ELSE IF ~validate_postal_code(order_data.recipientPostalCode.s,
                                               order_data.recipientCountry.s)
                 THEN Errors(<<Error(0, "recipientPostalCode", "Invalid postal code format")>>)
                 ELSE Errors(<<>>)
            ELSE Errors(<<>>)
        items ==
            IF Has(order_data.items)
            THEN IF order_data.items.t # "list" \/ Len(order_data.items.elems) = 0
                 THEN Errors(<<Error(0, "items", "At least one item is required")>>)
                 ELSE validate_items(order_data.items.elems, 0)
            ELSE Errors(<<>>)
    IN  Then(Then(Then(Then(required, email), phone), postal), items)

----------------------------------------------------------------------------
(* the payloads the validation functions are applied to *)

S_A1 == <<"A", "1">>
S_Al == <<"A", "l">>
S_Main == <<"1", " ", "M", "a", "i", "n">>
S_Rome == <<"R", "o", "m", "e">>
S_NY == <<"N", "Y">>
S_Zip == <<"1", "2", "3", "4", "5">>
S_ZipPlus4 == <<" ", "1", "2", "3", "4", "5", "-", "6", "7", "8", "9", " ">>
S_CaCode == <<"k", "1", "a", " ", "0", "b", "1">>
S_GbCode == <<"S", "W", "1", "A", " ", "1", "A", "A">>
S_Letters == <<"A", "B", "C", "D", "E">>
S_Short == <<"1", "2">>
S_US == <<"U", "S">>
S_us == <<"u", "s">>
S_CA == <<"C", "A">>
S_GB == <<"G", "B">>
S_FR == <<"F", "R">>
S_Email == <<"a", "@", "b", ".", "c", "o">>
S_EmailNoDot == <<"a", "@", "b">>
S_EmailSpace == <<"a", " ", "b", "@", "c", ".", "d">>
S_Phone == <<"+", "1", " ", "5", "5", "5", "-", "1", "2", "3", "-", "4", "5", "6", "7">>
S_PhoneShort == <<"5", "5", "5", "-", "1", "2", "3", "4">>
S_Widget == <<"W", "i", "d", "g", "e", "t">>
S_W1 == <<"W", "1">>
S_lb == <<"l", "b">>
S_g == <<"g">>
S_lbs == <<"l", "b", "s">>
S_KG == <<"K", "G">>
S_Two == <<"2">>

\* an order item: a mapping with the six item keys, or a value that is not a mapping
Item(t, name, sku, quantity, unitPrice, weight, weightUnit) ==
    [t |-> t, name |-> name, sku |-> sku, quantity |-> quantity,
     unitPrice |-> unitPrice, weight |-> weight, weightUnit |-> weightUnit]

NotAMapping(t) == Item(t, VAbsent, VAbsent, VAbsent, VAbsent, VAbsent, VAbsent)

ItemNames == {VAbsent, VNone, VStr(<<>>), VStr(S_Widget)}
ItemSkus == {VNone, VStr(S_W1)}
ItemQuantities == {VAbsent, VNone, VInt(0), VInt(2), VInt(-1), VFloat(15), VStr(S_Two), VBool(TRUE)}
ItemUnitPrices == {VAbsent, VInt(0), VInt(3), VFloat(-50), VFloat(99)}
ItemWeights == {VAbsent, VNone, VInt(0), VFloat(15)}
ItemWeightUnits == {VAbsent, VNone, VStr(S_lb), VStr(S_g), VStr(S_lbs), VStr(S_KG)}

Items ==
    { Item("dict", n, s, q, u, w, wu) :
        n \in ItemNames, s \in ItemSkus, q \in ItemQuantities,
        u \in ItemUnitPrices, w \in ItemWeights, wu \in ItemWeightUnits }
    \cup { NotAMapping(t) : t \in {"none", "int", "str"} }

\* positions an item is validated at; the last one gives a two-digit prefix
ItemIndexes == {0, 9}

GoodItem == Item("dict", VStr(S_Widget), VStr(S_W1), VInt(2), VFloat(99), VFloat(15), VStr(S_lb))
ZeroQuantityItem == Item("dict", VStr(S_Widget), VStr(S_W1), VInt(0), VFloat(99), VFloat(15), VStr(S_lb))
HalfQuantityItem == Item("dict", VStr(S_Widget), VStr(S_W1), VFloat(15), VFloat(99), VFloat(15), VStr(S_lb))
NamelessItem == Item("dict", VAbsent, VStr(S_W1), VInt(2), VInt(3), VInt(1), VStr(S_g))
EmptyNameItem == Item("dict", VStr(<<>>), VStr(S_W1), VInt(2), VInt(3), VInt(1), VStr(S_g))
BadUnitItem == Item("dict", VStr(S_Widget), VStr(S_W1), VInt(2), VFloat(99), VInt(0), VStr(S_lbs))

ItemLists ==
    { ItemsVal("absent", <<>>), ItemsVal("none", <<>>), ItemsVal("str", S_Widget),
      ItemsVal("list", <<>>),
      ItemsVal("list", <<GoodItem>>),
      ItemsVal("list", <<GoodItem, EmptyNameItem>>),
      ItemsVal("list", <<HalfQuantityItem>>),
      ItemsVal("list", <<NamelessItem, GoodItem>>),
      ItemsVal("list", <<ZeroQuantityItem, BadUnitItem>>),
      ItemsVal("list", <<GoodItem, NotAMapping("none")>>),
      ItemsVal("list", <<NotAMapping("str")>>) }

\* an order payload: the value under each key validate_order_data reads
Order(orderNumber, name, street1, city, state, postalCode, country, email, phone, items) ==
    [orderNumber |-> orderNumber, recipientName |-> name,
     recipientStreet1 |-> street1, recipientCity |-> city,
     recipientState |-> state, recipientPostalCode |-> postalCode,
     recipientCountry |-> country, recipientEmail |-> email,
     recipientPhone |-> phone, items |-> items]

OrderNumbers == {VAbsent, VStr(<<>>), VStr(S_A1)}
PostalCodes ==
    {VAbsent, VNone, VStr(<<>>), VStr(S_Zip), VStr(S_ZipPlus4), VStr(S_CaCode),
     VStr(S_GbCode), VStr(S_Letters), VStr(S_Short)}
Countries == {VAbsent, VNone, VStr(S_US), VStr(S_us), VStr(S_CA), VStr(S_GB), VStr(S_FR)}
Emails == {VAbsent, VNone, VStr(S_Email), VStr(S_EmailNoDot), VStr(S_EmailSpace), VInt(5)}
Phones == {VAbsent, VStr(<<>>), VStr(S_Phone), VStr(S_PhoneShort), VInt(5551234)}

\* every postal code with every country, and every other field's values
\* with a few postal codes
Orders ==
    { Order(VStr(S_A1), VStr(S_Al), VStr(S_Main), VStr(S_Rome), VStr(S_NY), code, co, em, ph, it) :
        code \in PostalCodes, co \in Countries,
        em \in {VAbsent, VStr(S_Email)}, ph \in {VAbsent, VStr(S_Phone)},
        it \in {ItemsVal("list", <<>>), ItemsVal("list", <<GoodItem>>)} }
    \cup
    { Order(on, VStr(S_Al), VStr(S_Main), VStr(S_Rome), VStr(S_NY), code, VStr(S_US), em, ph, it) :
        on \in OrderNumbers, code \in {VAbsent, VStr(S_Zip), VStr(S_Letters)},
        em \in Emails, ph \in Phones, it \in ItemLists }

\* validate_order_data applied to a payload
call_validate_order_data ==
    /\ fcall.fn = "none"
    /\ \E order_data \in Orders :
          fcall' = [fn |-> "validate_order_data", input |-> order_data,
                    out |-> validate_order_data(order_data)]
    /\ UNCHANGED sdkvars

\* validate_order_item applied to an item at a position
call_validate_order_item ==
    /\ fcall.fn = "none"
    /\ \E item \in Items, index \in ItemIndexes :
          fcall' = [fn |-> "validate_order_item", input |-> [item |-> item, index |-> index],
                    out |-> validate_order_item(item, index)]
    /\ UNCHANGED sdkvars

NextValidate ==
    \/ call_validate_order_data
    \/ call_validate_order_item
    \/ take_outcome

SpecValidate == FnInit /\ [][NextValidate]_vars

----------------------------------------------------------------------------
(* vocabulary of the claims about validation *)

\* validate_order_data, or validate_order_item, has been applied
ValidatedOrder == fcall.fn = "validate_order_data"
ValidatedItem == fcall.fn = "validate_order_item"

\* a string that is not empty
NonEmptyStr(v) == v.t = "str" /\ Len(v.s) > 0

\* a value that is absent, or a string
OptionalStr(v) == v.t \in {"absent", "str"}

\* every required field of the order is present: a non-empty string, and a
\* non-empty list of item mappings
RequiredPresent(o) ==
    /\ \A f \in {"orderNumber", "recipientName", "recipientStreet1", "recipientCity",
                 "recipientState", "recipientPostalCode", "recipientCountry"} :
          NonEmptyStr(o[f])
    /\ OptionalStr(o.recipientEmail)
    /\ OptionalStr(o.recipientPhone)
    /\ o.items.t = "list"
    /\ Len(o.items.elems) > 0
    /\ \A i \in 1..Len(o.items.elems) : o.items.elems[i].t = "dict"

\* a positive number
Positive(v) == v.t \in {"int", "float", "bool"} /\ v.n > 0

\* the item's quantity, unitPrice and weight are positive and its unit is known
ItemAmountsValid(item) ==
    /\ Positive(item.quantity)
    /\ Positive(item.unitPrice)
    /\ Positive(item.weight)
    /\ item.weightUnit.t = "str"
    /\ item.weightUnit.s \in { <<"l", "b">>, <<"k", "g">>, <<"o", "z">>, <<"g">> }

\* valid as C17 spells it out
ValidAsStated(o) ==
    /\ RequiredPresent(o)
    /\ \A i \in 1..Len(o.items.elems) : ItemAmountsValid(o.items.elems[i])

\* valid: as spelled out, and moreover well-formed
WellFormed(o) ==
    /\ ValidAsStated(o)
    /\ NonEmptyStr(o.recipientEmail) => validate_email(o.recipientEmail.s)
    /\ NonEmptyStr(o.recipientPhone) => validate_phone(o.recipientPhone.s)
    /\ validate_postal_code(o.recipientPostalCode.s, o.recipientCountry.s)
    /\ \A i \in 1..Len(o.items.elems) :
          /\ NonEmptyStr(o.items.elems[i].name)
          /\ NonEmptyStr(o.items.elems[i].sku)
          /\ o.items.elems[i].quantity.t \in {"int", "bool"}

----------------------------------------------------------------------------
(* C16 *)

\* C16 as stated: validate_order_data never raises; whatever the types of
\* the payload's values, the call returns a list of errors.
C16_ValidateNeverRaises ==
    ValidatedOrder => fcall.out.kind = "return"

----------------------------------------------------------------------------
(* C17 *)

\* C17 as stated: for every order payload that has all required fields, a
\* non-empty items list, positive quantity, unitPrice and weight in each item
\* and a weightUnit among lb, kg, oz, g, validate_order_data returns an empty
\* error list.
C17_ValidAsStatedHasNoErrors ==
    (ValidatedOrder /\ ValidAsStated(fcall.input)) => fcall.out = Errors(<<>>)

\* C17, amended: for every such payload whose postal code moreover matches
\* its country's format, whose email and phone are well-formed when given,
\* and whose items each have a name, a sku and an integer quantity,
\* validate_order_data returns an empty error list.
C17_WellFormedHasNoErrors ==
    (ValidatedOrder /\ WellFormed(fcall.input)) => fcall.out = Errors(<<>>)

\* a well-formed payload with an email, a phone and a float price was validated
C17_Witness ==
    /\ ValidatedOrder
    /\ WellFormed(fcall.input)
    /\ NonEmptyStr(fcall.input.recipientEmail)
    /\ NonEmptyStr(fcall.input.recipientPhone)
    /\ fcall.input.items.elems[1].unitPrice.t = "float"
    /\ fcall.out = Errors(<<>>)

----------------------------------------------------------------------------
(* C18 *)

\* a value that is missing or empty
MissingOrEmpty(v) == v.t \in {"absent", "none"} \/ (v.t = "str" /\ Len(v.s) = 0)

\* the items value is missing or empty
ItemsMissingOrEmpty(v) == v.t \in {"absent", "none"} \/ Len(v.elems) = 0

\* the errors of the order itself
EmailError == Error(0, "recipientEmail", "Invalid recipient email format")
PhoneError == Error(0, "recipientPhone", "Invalid recipient phone format")
PostalError == Error(0, "recipientPostalCode", "Invalid postal code format")
NoItemsError == Error(0, "items", "At least one item is required")

\* the place of an error in the precedence order of the checks
Rank(e) ==
    IF e.item > 0 \/ e = NoItemsError THEN 5
    ELSE IF e = PostalError THEN 4
    ELSE IF e = PhoneError THEN 3
    ELSE IF e = EmailError THEN 2
    ELSE 1

\* how many times an error occurs in a list
Count(errors, e) == Cardinality({ i \in 1..Len(errors) : errors[i] = e })

\* the errors of a list that belong to item number n
OfItem(errors, n) == SelectSeq(errors, LAMBDA e : e.item = n)

\* C18: when validate_order_data returns, its list holds exactly one
\* required-field error for each required field that is missing or empty and
\* none for the others; the email, phone and postal-code errors and the
\* items-required error are there exactly when their check fails, whatever
\* the earlier checks found; the errors of each item are those of
\* validate_order_item for it; and the list is in the order required fields,
\* email, phone, postal code, items, with the items in index order.
C18_CollectsAllInOrder ==
    (ValidatedOrder /\ fcall.out.kind = "return") =>
        LET o == fcall.input
            errors == fcall.out.errors
        IN  /\ \A f \in {"orderNumber", "recipientName", "recipientStreet1", "recipientCity",
                         "recipientState", "recipientPostalCode", "recipientCountry"} :
                  Count(errors, RequiredError(0, f)) = (IF MissingOrEmpty(o[f]) THEN 1 ELSE 0)
            /\ Count(errors, RequiredError(0, "items"))
                  = (IF ItemsMissingOrEmpty(o.items) THEN 1 ELSE 0)
            /\ Count(errors, EmailError)
                  = (IF NonEmptyStr(o.recipientEmail) /\ ~validate_email(o.recipientEmail.s)
                     THEN 1 ELSE 0)
            /\ Count(errors, PhoneError)
                  = (IF NonEmptyStr(o.recipientPhone) /\ ~validate_phone(o.recipientPhone.s)
                     THEN 1 ELSE 0)
            /\ Count(errors, PostalError)
                  = (IF /\ Has(o.recipientPostalCode)
                        /\ Has(o.recipientCountry)
                        /\ ~validate_postal_code(o.recipientPostalCode.s, o.recipientCountry.s)
                     THEN 1 ELSE 0)
            /\ Count(errors, NoItemsError)
                  = (IF Has(o.items) /\ (o.items.t # "list" \/ Len(o.items.elems) = 0)
                     THEN 1 ELSE 0)
            /\ o.items.t = "list" =>
                  \A n \in 1..Len(o.items.elems) :
                      OfItem(errors, n) = validate_order_item(o.items.elems[n], n - 1).errors
            /\ \A i, j \in 1..Len(errors) :
                  i < j => /\ Rank(errors[i]) <= Rank(errors[j])
                           /\ errors[i].item <= errors[j].item
            /\ (~Has(o.orderNumber) /\ o.items = ItemsVal("list", <<>>)) =>
                  /\ \E i \in 1..Len(errors) : errors[i] = RequiredError(0, "orderNumber")
                  /\ \E i \in 1..Len(errors) : errors[i].field = "items"

\* a payload failed every check at once, with errors in two items
C18_Witness ==
    /\ ValidatedOrder
    /\ fcall.out.kind = "return"
    /\ ~Has(fcall.input.orderNumber)
    /\ \E i, j, k, l, m, n \in 1..Len(fcall.out.errors) :
          /\ i < j /\ j < k /\ k < l /\ l < m /\ m < n
          /\ fcall.out.errors[i] = RequiredError(0, "orderNumber")
          /\ fcall.out.errors[j] = EmailError
          /\ fcall.out.errors[k] = PhoneError
          /\ fcall.out.errors[l] = PostalError
          /\ fcall.out.errors[m].item = 1
          /\ fcall.out.errors[n].item = 2

\* a payload without orderNumber and with an empty items list was validated
C18_WitnessBoth ==
    /\ ValidatedOrder
    /\ fcall.out.kind = "return"
    /\ ~Has(fcall.input.orderNumber)
    /\ fcall.input.items = ItemsVal("list", <<>>)

----------------------------------------------------------------------------
(* C19 *)

\* the value of an item's field is missing, empty or invalid
FieldBad(item, f) ==
    \/ MissingOrEmpty(item[f])
    \/ f = "quantity" /\ ~(item[f].t \in {"int", "bool"} /\ item[f].n > 0)
    \/ f \in {"unitPrice", "weight"} /\ ~Positive(item[f])
    \/ f = "weightUnit"
       /\ ~(item[f].t = "str" /\ item[f].s \in { <<"l", "b">>, <<"k", "g">>, <<"o", "z">>, <<"g">> })

\* C19 as stated: validate_order_item reports, for each of name, sku,
\* quantity, unitPrice, weight and weightUnit whose value is missing, empty or
\* invalid, an error about that field, whose text names it.
C19_EveryBadFieldNamed ==
    (ValidatedItem /\ fcall.input.item.t = "dict") =>
        \A f \in {"name", "sku", "quantity", "unitPrice", "weight", "weightUnit"} :
            FieldBad(fcall.input.item, f) =>
                \E i \in 1..Len(fcall.out.errors) : fcall.out.errors[i].field = f

----------------------------------------------------------------------------
(* src/atoship/client.py: order creation, order update, batch creation and
   batch tracking *)

\* sep.join(strs)
RECURSIVE join(_, _)
join(sep, strs) ==
    IF Len(strs) = 0 THEN ""
    ELSE IF Len(strs) = 1 THEN strs[1]
    ELSE strs[1] \o sep \o join(sep, Tail(strs))

\* '; '.join(validation_errors)
joined(errors) == join("; ", [i \in 1..Len(errors) |-> render(errors[i])])

\* ValidationError(message)
ValidationError(message) == atoshipError_init("ValidationError", message, "None", DAbsent)

\* the argument of a public method, or the data of a request: what it is and
\* the orders or tracking numbers it holds
Arg(kind, items) == [kind |-> kind, items |-> items]

\* every value has the type CreateOrderRequest and OrderItem declare for it
HasDeclaredTypes(order_data) ==
    /\ \A f \in {"orderNumber", "recipientName", "recipientStreet1", "recipientCity",
                 "recipientState", "recipientPostalCode", "recipientCountry"} :
          order_data[f].t = "str"
    /\ order_data.recipientEmail.t \in {"absent", "none", "str"}
    /\ order_data.recipientPhone.t \in {"absent", "none", "str"}
    /\ order_data.items.t = "list"
    /\ \A i \in 1..Len(order_data.items.elems) :
          LET item == order_data.items.elems[i]
          IN  /\ item.t = "dict"
              /\ item.name.t = "str" /\ item.sku.t = "str"
              /\ item.quantity.t = "int" /\ item.quantity.n > 0
              /\ item.unitPrice.t \in {"int", "float"} /\ item.unitPrice.n > 0
              /\ item.weight.t \in {"int", "float"} /\ item.weight.n > 0
              /\ item.weightUnit.t = "str" /\ item.weightUnit.s \in valid_units

\* _validate_and_convert(data, CreateOrderRequest): the outcomes it can have.
\* A value of another type than declared is coerced or rejected, depending on
\* the installed pydantic.
validate_and_convert(order_data) ==
    IF HasDeclaredTypes(order_data)
    THEN { Return(BOk) }
    ELSE { Return(BOk), Raise(ValidationError("Validation error: " \o "1 validation error for CreateOrderRequest")) }

\* a public method raises before it calls _make_request
raise_before_request(m, a, exc) ==
    /\ pc = "idle"
    /\ pc' = "done"
    /\ method' = m
    /\ arg' = a
    /\ result' = Raise(exc)
    /\ requests' = <<>>
    /\ UNCHANGED <<sdk, self_max_retries, attempt, last_exception, calls, sleeps, transcript,
                   last_response, ret, fcall>>

\* a public method calls _make_request(http_method, endpoint, data)
start_request(m, a, http_method, data) ==
    /\ pc = "idle"
    /\ pc' = "retrying"
    /\ method' = m
    /\ arg' = a
    /\ requests' = <<Request(http_method, Endpoint(m), data)>>
    /\ UNCHANGED <<sdk, self_max_retries, attempt, last_exception, calls, sleeps, transcript,
                   last_response, ret, result, fcall>>

\* atoshipSDK.create_order(order_data), up to its call of _make_request
create_order_NoValidation(order_data) ==
    /\ pc = "idle"
    /\ \E c \in validate_and_convert(order_data) :
          IF c.kind = "raise"
          THEN raise_before_request("create_order", Arg("order", <<order_data>>), c.exc)
          ELSE start_request("create_order", Arg("order", <<order_data>>), "POST",
                             Arg("CreateOrderRequest", <<order_data>>))
create_order(order_data) ==
    /\ pc = "idle"
    /\ LET a == Arg("order", <<order_data>>)
           validation_errors == validate_order_data(order_data)
       IN  IF validation_errors.kind = "raise"
           THEN raise_before_request("create_order", a, Foreign(validation_errors.exc))
           ELSE IF Len(validation_errors.errors) > 0
           THEN raise_before_request("create_order", a,
                    ValidationError("Order validation failed: "
                                    \o joined(validation_errors.errors)))
           ELSE \E c \in validate_and_convert(order_data) :
                    IF c.kind = "raise"
                    THEN raise_before_request("create_order", a, c.exc)
                    ELSE start_request("create_order", a, "POST",
                                       Arg("CreateOrderRequest", <<order_data>>))

\* atoshipSDK.update_order(order_id, order_data), up to its call of _make_request
update_order(order_data) ==
    /\ pc = "idle"
    /\ start_request("update_order", Arg("order", <<order_data>>), "PUT",
                     Arg("order", <<order_data>>))

MAX_BATCH_ORDERS == 100

\* the position of the first order of the batch that validate_order_data does
\* not pass: 0 if there is none
first_failing(orders) ==
    LET failing == { i \in 1..Len(orders) : validate_order_data(orders[i]) # Errors(<<>>) }
    IN  IF failing = {} THEN 0
        ELSE CHOOSE i \in failing : \A j \in failing : i <= j

\* atoshipSDK.create_orders_batch(orders), up to its call of _make_request
batch_limit_exceeded_AtLimit(orders) == Len(orders) >= MAX_BATCH_ORDERS
batch_limit_exceeded(orders) == Len(orders) > MAX_BATCH_ORDERS

create_orders_batch(orders) ==
    /\ pc = "idle"
    /\ LET a == Arg("batch", orders)
           i == first_failing(orders)
       IN  IF Len(orders) = 0
           THEN raise_before_request("create_orders_batch", a,
                    ValidationError("At least one order is required for batch creation"))
           ELSE IF batch_limit_exceeded(orders)
           THEN raise_before_request("create_orders_batch", a,
                    ValidationError("Maximum 100 orders allowed per batch"))
           ELSE IF i = 0
           THEN start_request("create_orders_batch", a, "POST", Arg("orders", orders))
           ELSE IF validate_order_data(orders[i]).kind = "raise"
           THEN raise_before_request("create_orders_batch", a,
                    Foreign(validate_order_data(orders[i]).exc))
           ELSE raise_before_request("create_orders_batch", a,
                    ValidationError("Order " \o IntToStr(i) \o " validation failed: "
                                    \o joined(validate_order_data(orders[i]).errors)))

MAX_TRACKING_NUMBERS == 50

\* atoshipSDK.track_multiple(tracking_numbers), up to its call of _make_request
tracking_limit_exceeded(tracking_numbers) == Len(tracking_numbers) > MAX_TRACKING_NUMBERS

track_multiple(tracking_numbers) ==
    /\ pc = "idle"
    /\ LET a == Arg("numbers", tracking_numbers)
       IN  IF tracking_limit_exceeded(tracking_numbers)
           THEN raise_before_request("track_multiple", a,
                    ValidationError("Maximum 50 tracking numbers allowed per request"))
           ELSE start_request("track_multiple", a, "POST",
                    Arg("trackingNumbers",
                        [i \in 1..Len(tracking_numbers) |->
                            format_tracking_number(tracking_numbers[i])]))

\* the order payloads the public methods are called with
ValidOrder ==
    Order(VStr(S_A1), VStr(S_Al), VStr(S_Main), VStr(S_Rome), VStr(S_NY), VStr(S_Zip),
          VStr(S_US), VStr(S_Email), VStr(S_Phone), ItemsVal("list", <<GoodItem>>))
ValidOrderCA ==
    Order(VStr(S_A1), VStr(S_Al), VStr(S_Main), VStr(S_Rome), VStr(S_NY), VStr(S_CaCode),
          VStr(S_CA), VAbsent, VAbsent, ItemsVal("list", <<GoodItem, EmptyNameItem>>))
NumberedOrder ==
    Order(VInt(7), VStr(S_Al), VStr(S_Main), VStr(S_Rome), VStr(S_NY), VStr(S_Zip),
          VStr(S_US), VAbsent, VAbsent, ItemsVal("list", <<GoodItem>>))
EmptyOrder ==
    Order(VStr(<<>>), VStr(S_Al), VAbsent, VAbsent, VAbsent, VAbsent,
          VAbsent, VAbsent, VAbsent, ItemsVal("list", <<>>))
BadEmailOrder ==
    Order(VStr(S_A1), VStr(S_Al), VStr(S_Main), VStr(S_Rome), VStr(S_NY), VStr(S_Zip),
          VStr(S_US), VStr(S_EmailNoDot), VAbsent, ItemsVal("list", <<GoodItem>>))
BadPostalOrder ==
    Order(VStr(S_A1), VStr(S_Al), VStr(S_Main), VStr(S_Rome), VStr(S_NY), VStr(S_Letters),
          VStr(S_US), VAbsent, VStr(S_PhoneShort), ItemsVal("list", <<GoodItem>>))
BadItemsOrder ==
    Order(VStr(S_A1), VStr(S_Al), VStr(S_Main), VStr(S_Rome), VStr(S_NY), VStr(S_Zip),
          VStr(S_US), VAbsent, VAbsent, ItemsVal("list", <<ZeroQuantityItem, BadUnitItem>>))
NoPostalOrder ==
    Order(VStr(S_A1), VStr(S_Al), VStr(S_Main), VStr(S_Rome), VStr(S_NY), VNone,
          VStr(S_US), VAbsent, VAbsent, ItemsVal("list", <<GoodItem>>))

OrderArgs ==
    {ValidOrder, ValidOrderCA, NumberedOrder, EmptyOrder, BadEmailOrder, BadPostalOrder,
     BadItemsOrder, NoPostalOrder}

\* a batch of n orders, all valid but the one at position bad (0: none)
BatchOf(n, bad, order_data) == [i \in 1..n |-> IF i = bad THEN order_data ELSE ValidOrder]

\* the batches: empty, short ones of every kind, and long ones around the limit
BatchArgs ==
    { <<>> }
    \cup { <<o>> : o \in OrderArgs }
    \cup { <<o1, o2>> : o1 \in {ValidOrder, EmptyOrder, BadItemsOrder},
                        o2 \in {ValidOrderCA, BadEmailOrder, NoPostalOrder} }
    \cup { BatchOf(n, bad, BadPostalOrder) :
             n \in {MAX_BATCH_ORDERS - 1, MAX_BATCH_ORDERS, MAX_BATCH_ORDERS + 1},
             bad \in {0, 1, MAX_BATCH_ORDERS} }

\* tracking numbers as callers type them
S_1z9 == <<" ", "1", "z", "9", "a", " ">>
S_Track == <<"t", "r", "a", "c", "k", "-", "0", "0", "1">>
S_X1 == <<"X", "1">>

TrackingNumbers == {S_1z9, S_Track, S_X1}

\* the lists of tracking numbers: short ones, and long ones around the limit
TrackingArgs ==
    { <<>> }
    \cup { <<a>> : a \in TrackingNumbers }
    \cup { <<a, b>> : a \in TrackingNumbers, b \in TrackingNumbers }
    \cup { [i \in 1..n |-> IF i = n THEN a ELSE S_Track] :
             n \in {MAX_TRACKING_NUMBERS - 1, MAX_TRACKING_NUMBERS, MAX_TRACKING_NUMBERS + 1},
             a \in TrackingNumbers }

\* what the server or the network does to an attempt of these requests
OrderTransports ==
    { Transport("response", 200, BOk), Transport("response", 503, BEmpty),
      Transport("response", 404, BErrField), Transport("timeout", 0, NoBody),
      Transport("network", 0, NoBody) }

NextOrders ==
    \/ \E order_data \in OrderArgs : create_order(order_data)
    \/ \E order_data \in OrderArgs : update_order(order_data)
    \/ \E orders \in BatchArgs : create_orders_batch(orders)
    \/ \E tracking_numbers \in TrackingArgs : track_multiple(tracking_numbers)
    \/ \E t \in OrderTransports : Attempt(t)
    \/ Deliver

SpecOrders == FnInit /\ [][NextOrders]_vars

----------------------------------------------------------------------------
(* vocabulary of the claims about the public methods that validate *)

\* a call of public method m is in progress or has just ended
Called(m) == method = m /\ pc # "idle"

\* the call has issued no HTTP request: no _make_request, no attempt
NoHttpRequest == requests = <<>> /\ calls = 0 /\ transcript = <<>>

\* the call ended by raising a ValidationError with this message
RaisedValidationError(message) ==
    /\ pc = "done"
    /\ result.kind = "raise"
    /\ result.exc.type = "ValidationError"
    /\ result.exc.message = message

\* validate_order_data returns a non-empty list for the payload
Rejected(order_data) ==
    /\ validate_order_data(order_data).kind = "return"
    /\ Len(validate_order_data(order_data).errors) > 0

----------------------------------------------------------------------------
(* C12 *)

\* C12: whenever create_order is called with a payload for which
\* validate_order_data returns a non-empty list, the call ends by raising one
\* ValidationError whose message is "Order validation failed: " followed by
\* all the collected messages joined with "; ", and no HTTP request is issued.
C12_InvalidOrderNeverSent ==
    (Called("create_order") /\ Rejected(arg.items[1])) =>
        /\ RaisedValidationError("Order validation failed: "
                                 \o joined(validate_order_data(arg.items[1]).errors))
        /\ NoHttpRequest

\* create_order was called with the payload of the repository's test (an
\* empty orderNumber, no address, no items) and raised with every message
C12_Witness ==
    /\ Called("create_order")
    /\ arg.items[1] = EmptyOrder
    /\ NoHttpRequest
    /\ RaisedValidationError(
          "Order validation failed: 'orderNumber' is required; 'recipientStreet1' is required; 'recipientCity' is required; 'recipientState' is required; 'recipientPostalCode' is required; 'recipientCountry' is required; 'items' is required; At least one item is required")

----------------------------------------------------------------------------
(* C13 *)

\* C13 as stated: whenever update_order is called with a payload for which
\* validate_order_data returns a non-empty list, the call ends by raising a
\* ValidationError and no HTTP request is issued.
C13_UpdateValidates ==
    (Called("update_order") /\ Rejected(arg.items[1])) =>
        /\ pc = "done"
        /\ result.kind = "raise"
        /\ result.exc.type = "ValidationError"
        /\ NoHttpRequest

----------------------------------------------------------------------------
(* C14 *)

\* the positions of the batch's orders that validate_order_data does not pass
NotPassing(orders) ==
    { i \in 1..Len(orders) : validate_order_data(orders[i]) # Errors(<<>>) }

\* the batch is acceptable: 1 to 100 orders, and validate_order_data passes each
Acceptable(orders) ==
    /\ Len(orders) >= 1
    /\ Len(orders) <= 100
    /\ NotPassing(orders) = {}

C14_WitnessSent ==
    /\ Called("create_orders_batch")
    /\ Len(arg.items) = 100
    /\ Len(requests) = 1
    /\ calls = 2

----------------------------------------------------------------------------
(* C15 *)

\* out is s without its leading and trailing whitespace, in upper case
StrippedUpper(s, out) ==
    \E a \in 0..Len(s), b \in 0..Len(s) :
        /\ a + b <= Len(s)
        /\ Len(out) = Len(s) - a - b
        /\ \A k \in 1..a : IsSpace(s[k])
        /\ \A k \in (Len(s) - b + 1)..Len(s) : IsSpace(s[k])
        /\ Len(out) > 0 => (~IsSpace(out[1]) /\ ~IsSpace(out[Len(out)]))
        /\ \A k \in 1..Len(out) : out[k] = upper_char(s[a + k])

C15_WitnessRefused ==
    /\ Called("track_multiple")
    /\ Len(arg.items) = 51
    /\ NoHttpRequest
    /\ pc = "done"

----------------------------------------------------------------------------
(* src/atoship/utils.py: build_query_params *)

\* a parameter value: its type, its text if it is a string, its number if it
\* is numeric (a float in tenths), its elements if it is a list
PVal(t, s, n, elems) == [t |-> t, s |-> s, n |-> n, elems |-> elems]
PAbsent == PVal("absent", "", 0, <<>>)
PNone == PVal("none", "", 0, <<>>)
PBool(b) == PVal("bool", "", IF b THEN 1 ELSE 0, <<>>)
PInt(n) == PVal("int", "", n, <<>>)
PFloat(tenths) == PVal("float", "", tenths, <<>>)
PStr(s) == PVal("str", s, 0, <<>>)
PList(elems) == PVal("list", "", 0, elems)

\* str(n) for an integer
str_int(n) == IF n < 0 THEN "-" \o IntToStr(0 - n) ELSE IntToStr(n)

\* str(value)
str(v) ==
    IF v.t = "none" THEN "None"
    ELSE IF v.t = "bool" THEN (IF v.n = 1 THEN "True" ELSE "False")
    ELSE IF v.t = "int" THEN str_int(v.n)
    ELSE IF v.t = "float"
    THEN (IF v.n < 0 THEN "-" ELSE "")
         \o IntToStr((IF v.n < 0 THEN 0 - v.n ELSE v.n) \div 10) \o "."
         \o IntToStr((IF v.n < 0 THEN 0 - v.n ELSE v.n) % 10)
    ELSE v.s

\* the string build_query_params stores for a value that is not None
query_value_StrOnly(value) ==
    IF value.t = "list"
    THEN join(",", [i \in 1..Len(value.elems) |-> str(value.elems[i])])
    ELSE str(value)
query_value(value) ==
    IF value.t = "bool" THEN (IF value.n = 1 THEN "true" ELSE "false")
    ELSE IF value.t = "list"
    THEN join(",", [i \in 1..Len(value.elems) |-> str(value.elems[i])])
    ELSE str(value)

\* build_query_params(params)
build_query_params(params) ==
    [ key \in { k \in DOMAIN params : params[k].t \notin {"absent", "none"} } |->
        query_value(params[key]) ]

ParamKeys == {"page", "active", "tags"}

ParamValues ==
    { PAbsent, PNone, PBool(TRUE), PBool(FALSE), PInt(1), PInt(50), PInt(0), PInt(-3),
      PFloat(15), PStr("test query"), PStr(""),
      PList(<<>>), PList(<<PStr("tag1"), PStr("tag2")>>),
      PList(<<PInt(1), PBool(TRUE), PNone>>) }

\* build_query_params applied to a parameter map
call_build_query_params ==
    /\ fcall.fn = "none"
    /\ \E params \in [ParamKeys -> ParamValues] :
          fcall' = [fn |-> "build_query_params", input |-> params,
                    out |-> build_query_params(params)]
    /\ UNCHANGED sdkvars

NextQuery ==
    \/ call_build_query_params
    \/ take_outcome

SpecQuery == FnInit /\ [][NextQuery]_vars

----------------------------------------------------------------------------
(* C20 *)

\* the string form of each value of the model, written out
Written(v) ==
    CASE v = PBool(TRUE) -> "true"
      [] v = PBool(FALSE) -> "false"
      [] v = PInt(1) -> "1"
      [] v = PInt(50) -> "50"
      [] v = PInt(0) -> "0"
      [] v = PInt(-3) -> "-3"
      [] v = PFloat(15) -> "1.5"
      [] v = PStr("test query") -> "test query"
      [] v = PStr("") -> ""
      [] v = PList(<<>>) -> ""
      [] v = PList(<<PStr("tag1"), PStr("tag2")>>) -> "tag1,tag2"
      [] v = PList(<<PInt(1), PBool(TRUE), PNone>>) -> "1,True,None"

\* C20: for every parameter map, the keys of build_query_params' result are
\* exactly the keys whose value is not None; a boolean is stored as 'true' or
\* 'false', a list as the string forms of its elements joined by commas, any
\* other value as its string form.
C20_QueryEncoding ==
    fcall.fn = "build_query_params" =>
        /\ DOMAIN fcall.out = { k \in ParamKeys : fcall.input[k].t \notin {"absent", "none"} }
        /\ \A k \in DOMAIN fcall.out :
              /\ fcall.out[k] = Written(fcall.input[k])
              /\ fcall.input[k].t = "bool" => fcall.out[k] \in {"true", "false"}

\* the map {page: None, active: True, tags: [tag1, tag2]} was encoded: page
\* is left out, active is 'true', tags is 'tag1,tag2'
C20_Witness ==
    /\ fcall.fn = "build_query_params"
    /\ fcall.input.page = PNone
    /\ fcall.input.active = PBool(TRUE)
    /\ fcall.input.tags = PList(<<PStr("tag1"), PStr("tag2")>>)
    /\ DOMAIN fcall.out = {"active", "tags"}
    /\ fcall.out.active = "true"
    /\ fcall.out.tags = "tag1,tag2"

----------------------------------------------------------------------------
(* src/atoship/utils.py: mask_sensitive_data *)

\* keys and values of the dictionaries that are logged
K_apiKey == <<"a", "p", "i", "K", "e", "y">>
K_TOKEN == <<"T", "O", "K", "E", "N">>
K_key == <<"k", "e", "y">>
K_user == <<"u", "s", "e", "r">>
K_nested == <<"n", "e", "s", "t", "e", "d">>
K_items == <<"i", "t", "e", "m", "s">>
S_abcd == <<"a", "b", "c", "d">>
S_secret123 == <<"s", "e", "c", "r", "e", "t", "1", "2", "3">>
S_john == <<"j", "o", "h", "n", "_", "d", "o", "e">>

\* sensitive_fields, lower-cased
sensitive_fields_lower ==
    { <<"p", "a", "s", "s", "w", "o", "r", "d">>,
      <<"a", "p", "i", "k", "e", "y">>,
      <<"a", "p", "i", "_", "k", "e", "y">>,
      <<"s", "e", "c", "r", "e", "t">>,
      <<"t", "o", "k", "e", "n">>,
      <<"k", "e", "y">> }

\* str.lower()
lower_char(c) ==
    IF \E i \in DOMAIN UpperLetters : UpperLetters[i] = c
    THEN LowerLetters[CHOOSE i \in DOMAIN UpperLetters : UpperLetters[i] = c]
    ELSE c
lower(s) == [i \in 1..Len(s) |-> lower_char(s[i])]

\* key.lower() in [field.lower() for field in sensitive_fields]
is_sensitive_CaseSensitive(key) == key \in sensitive_fields_lower
is_sensitive(key) == lower(key) \in sensitive_fields_lower

\* a value held by a dictionary: a string (its characters), a number, None,
\* or a reference to a dictionary object, directly or as the element of a list
MV(t, s, ref) == [t |-> t, s |-> s, ref |-> ref]
MAbsent == MV("absent", <<>>, 0)
MStr(s) == MV("str", s, 0)
MInt == MV("int", <<>>, 0)
MDict(ref) == MV("dict", <<>>, ref)
MListOf(ref) == MV("list", <<>>, ref)

LogKeys == <<K_apiKey, K_TOKEN, K_key, K_user, K_nested, K_items>>

\* a dictionary object without any key
EmptyDict == [k \in {LogKeys[i] : i \in DOMAIN LogKeys} |-> MAbsent]

\* value[:2] + '*' * (len(value) - 4) + value[-2:] for a string of more than
\* 4 characters, '***' for anything else
MASK_MIN_LENGTH == 4
masked_value(value) ==
    IF value.t = "str" /\ Len(value.s) > MASK_MIN_LENGTH
    THEN MStr(SubSeq(value.s, 1, 2)
              \o [i \in 1..(Len(value.s) - 4) |-> "*"]
              \o SubSeq(value.s, Len(value.s) - 1, Len(value.s)))
    ELSE MStr(<<"*", "*", "*">>)

\* mask_sensitive_data(data) on a heap of dictionary objects: data.copy()
\* allocates a new object with the same entries, the loop assigns into the
\* copy, and a nested dictionary is replaced by the result of the recursive
\* call. Returns the heap afterwards and the object returned.
RECURSIVE mask_sensitive_data(_, _), mask_loop(_, _, _)
mask_sensitive_data(heap, data) ==
    mask_loop(Append(heap, heap[data]), Len(heap) + 1, 1)

mask_loop(heap, masked_data, i) ==
    IF i > Len(LogKeys) THEN [heap |-> heap, out |-> masked_data]
    ELSE LET key == LogKeys[i]
             value == heap[masked_data][key]
         IN  IF value.t = "absent" THEN mask_loop(heap, masked_data, i + 1)
             ELSE IF is_sensitive(key)
             THEN mask_loop([heap EXCEPT ![masked_data][key] = masked_value(value)],
                            masked_data, i + 1)
             ELSE IF value.t = "dict"
             THEN LET r == mask_sensitive_data(heap, value.ref)
                  IN  mask_loop([r.heap EXCEPT ![masked_data][key] = MDict(r.out)],
                                masked_data, i + 1)
             ELSE mask_loop(heap, masked_data, i + 1)

\* the dictionaries that are masked: object 1 holds scalars under apiKey, TOKEN
\* and user, and under nested and items nothing, a string, a dictionary
\* (object 2) or a list holding that dictionary; object 2 holds scalars
MaskScalars == {MAbsent, MStr(S_abcd), MStr(S_secret123), MInt}

InnerDicts ==
    { [EmptyDict EXCEPT ![K_key] = a, ![K_user] = b] :
        a \in MaskScalars, b \in {MAbsent, MStr(S_john)} }

OuterDicts ==
    { [EmptyDict EXCEPT ![K_apiKey] = a, ![K_TOKEN] = b, ![K_user] = c, ![K_nested] = d,
                        ![K_items] = e] :
        a \in MaskScalars, b \in {MAbsent, MStr(S_secret123), MDict(2)},
        c \in {MAbsent, MStr(S_john)},
        d \in {MAbsent, MStr(S_abcd), MDict(2)}, e \in {MAbsent, MListOf(2)} }

MaskHeaps == { <<outer, inner>> : outer \in OuterDicts, inner \in InnerDicts }

\* mask_sensitive_data applied to object 1 of a heap
call_mask_sensitive_data ==
    /\ fcall.fn = "none"
    /\ \E heap \in MaskHeaps :
          fcall' = [fn |-> "mask_sensitive_data", input |-> heap,
                    out |-> mask_sensitive_data(heap, 1)]
    /\ UNCHANGED sdkvars

NextMask ==
    \/ call_mask_sensitive_data
    \/ take_outcome

SpecMask == FnInit /\ [][NextMask]_vars

----------------------------------------------------------------------------
(* C21 *)

\* the keys of the model that are sensitive field names, whatever their case
SensitiveKeys == {K_apiKey, K_TOKEN, K_key}

\* out is the masked form of the value v of a sensitive key
MaskedForm(v, out) ==
    IF v.t = "str" /\ Len(v.s) > 4
    THEN /\ out.t = "str"
         /\ Len(out.s) = Len(v.s)
         /\ out.s[1] = v.s[1] /\ out.s[2] = v.s[2]
         /\ out.s[Len(v.s) - 1] = v.s[Len(v.s) - 1] /\ out.s[Len(v.s)] = v.s[Len(v.s)]
         /\ \A i \in 3..(Len(v.s) - 2) : out.s[i] = "*"
    ELSE out = MStr(<<"*", "*", "*">>)

\* object m of heap h is the masked form of object d of heap h0
RECURSIVE MaskedObject(_, _, _, _)
MaskedObject(h0, d, h, m) ==
    \A k \in DOMAIN h0[d] :
        IF h0[d][k].t = "absent" THEN h[m][k].t = "absent"
        ELSE IF k \in SensitiveKeys THEN MaskedForm(h0[d][k], h[m][k])
        ELSE IF h0[d][k].t = "dict"
        THEN /\ h[m][k].t = "dict"
             /\ MaskedObject(h0, h0[d][k].ref, h, h[m][k].ref)
        ELSE h[m][k] = h0[d][k]

----------------------------------------------------------------------------
(* src/atoship/client.py: the debug log of _make_request and _handle_response *)

\* if data: (a dictionary with at least one key)
dict_bool_of(d) == \E k \in DOMAIN d : d[k].t # "absent"

\* one line of the log that prints a dictionary: which line, and the object
\* printed in its heap
LogLine(line, heap, obj) == [line |-> line, heap |-> heap, obj |-> obj]

\* the dictionaries printed by one attempt of _make_request(method, endpoint,
\* data) with self._debug set, answered with the JSON object response_data:
\* the masked request data, then the response data as parsed
debug_log(data, response_data) ==
    (IF dict_bool_of(data[1])
     THEN <<LogLine("Request data", mask_sensitive_data(data, 1).heap,
                    mask_sensitive_data(data, 1).out)>>
     ELSE <<>>)
    \o <<LogLine("Response data", response_data, 1)>>

\* the JSON objects the server answers with: nothing sensitive, or the key
\* of a newly created API key
ResponseHeaps ==
    { <<[EmptyDict EXCEPT ![K_user] = MStr(S_john), ![K_key] = a], EmptyDict>> :
        a \in {MAbsent, MStr(S_secret123)} }

\* update_profile(profile_data) with debug on: one attempt and its log
call_debug_request ==
    /\ fcall.fn = "none"
    /\ \E data \in MaskHeaps, response_data \in ResponseHeaps :
          fcall' = [fn |-> "debug_request",
                    input |-> [data |-> data, response_data |-> response_data],
                    out |-> debug_log(data, response_data)]
    /\ UNCHANGED sdkvars

NextDebug ==
    \/ call_debug_request
    \/ take_outcome

SpecDebug == FnInit /\ [][NextDebug]_vars

----------------------------------------------------------------------------
(* C22 *)

\* a string in which nothing has been replaced by asterisks
Unmasked(v) ==
    v.t = "str" /\ Len(v.s) > 0 /\ \A i \in 1..Len(v.s) : v.s[i] # "*"

\* the printed object shows the unmasked value of a sensitive field, in
\* itself or in a dictionary or list it holds
RECURSIVE Leaks(_, _)
Leaks(heap, obj) ==
    \E k \in DOMAIN heap[obj] :
        \/ k \in SensitiveKeys /\ Unmasked(heap[obj][k])
        \/ heap[obj][k].t \in {"dict", "list"} /\ Leaks(heap, heap[obj][k].ref)

\* C22 as stated: with debug on, no line of the log of a request shows the
\* unmasked value of a sensitive field, neither the request data (lists of
\* objects included) nor the response data.
C22_LogsNeverLeak ==
    fcall.fn = "debug_request" =>
        \A i \in 1..Len(fcall.out) : ~Leaks(fcall.out[i].heap, fcall.out[i].obj)

----------------------------------------------------------------------------
(* Construction and configuration of the client: __init__, get_config, update_config *)

\* an argument the caller may leave out
Given(v) == [has |-> TRUE, v |-> v]

Omitted(S) == [has |-> FALSE, v |-> CHOOSE x \in S : TRUE]

Opt(S) == {Omitted(S)} \cup {Given(x) : x \in S}

\* a parameter of __init__ with its default value
arg_or_default(a, default) == IF a.has THEN a.v ELSE default

\* the mutation of get_config: the dictionary carries the API key as well
get_config_WithKey(object, max_retries) ==
    [base_url |-> object.base_url,
     timeout |-> object.timeout,
     max_retries |-> max_retries,
     debug |-> object.debug,
     api_key |-> object.api_key]

\* atoshipSDK.get_config
get_config(object, max_retries) ==
    [base_url |-> object.base_url,
     timeout |-> object.timeout,
     max_retries |-> max_retries,
     debug |-> object.debug]

\* atoshipSDK.update_config(**kwargs): the object and its _max_retries afterwards
update_config_kwargs(object, max_retries, kwargs) ==
    [sdk |-> [object EXCEPT
                !.timeout = IF kwargs.timeout.has THEN kwargs.timeout.v ELSE @,
                !.debug = IF kwargs.debug.has THEN kwargs.debug.v ELSE @],
     max_retries |-> IF kwargs.max_retries.has THEN kwargs.max_retries.v ELSE max_retries]

CUSTOM_BASE_URL == <<"h", "t", "t", "p", "s", ":", "/", "/", "c", "u", "s", "t", "o", "m", ".", "a", "p", "i", ".", "c", "o", "m", "/">>

K_other_key == <<"o", "t", "h", "e", "r">>

ApiKeys == {KeyNone, KeyStr(<<>>), KeyInt, KeyStr(K_test_key)}

BaseUrls == {DEFAULT_BASE_URL, CUSTOM_BASE_URL}

Timeouts == {5, 60}

InitArgs ==
    [api_key : ApiKeys, base_url : Opt(BaseUrls), timeout : Opt(Timeouts),
     max_retries : Opt(0..MaxCfgRetries), debug : Opt(BOOLEAN)]

Kwargs ==
    [timeout : Opt(Timeouts), max_retries : Opt(0..MaxCfgRetries), debug : Opt(BOOLEAN),
     base_url : Opt({CUSTOM_BASE_URL}), api_key : Opt({KeyStr(K_other_key)})]

\* before the caller has constructed a client; self_max_retries holds no attribute yet
ConfigInit ==
    /\ sdk = NoSdk
    /\ self_max_retries = DEFAULT_MAX_RETRIES
    /\ pc = "idle"
    /\ method = "none"
    /\ attempt = 0
    /\ last_exception = NoExc
    /\ calls = 0
    /\ sleeps = <<>>
    /\ transcript = <<>>
    /\ last_response = NoTransport
    /\ ret = NoOutcome
    /\ result = NoOutcome
    /\ arg = NoArg
    /\ requests = <<>>
    /\ fcall = NoCall

\* atoshipSDK(api_key, ...)
call_atoshipSDK ==
    /\ fcall.fn = "none"
    /\ sdk = NoSdk
    /\ \E a \in InitArgs :
         LET out == atoshipSDK_init(a.api_key,
                                    arg_or_default(a.base_url, DEFAULT_BASE_URL),
                                    arg_or_default(a.timeout, DEFAULT_TIMEOUT),
                                    arg_or_default(a.max_retries, DEFAULT_MAX_RETRIES),
                                    arg_or_default(a.debug, FALSE))
         IN  /\ fcall' = [fn |-> "atoshipSDK", input |-> a, out |-> out]
             /\ sdk' = IF out.raised THEN sdk ELSE out.sdk
             /\ self_max_retries' = IF out.raised THEN self_max_retries ELSE out.max_retries
    /\ UNCHANGED <<pc, method, attempt, last_exception, calls, sleeps, transcript,
                   last_response, ret, result, arg, requests>>

\* sdk.update_config(**kwargs)
call_update_config ==
    /\ fcall.fn = "none"
    /\ sdk # NoSdk
    /\ \E kwargs \in Kwargs :
         LET after == update_config_kwargs(sdk, self_max_retries, kwargs)
         IN  /\ fcall' = [fn |-> "update_config", input |-> kwargs, out |-> <<>>]
             /\ sdk' = after.sdk
             /\ self_max_retries' = after.max_retries
    /\ UNCHANGED <<pc, method, attempt, last_exception, calls, sleeps, transcript,
                   last_response, ret, result, arg, requests>>

\* sdk.get_config()
call_get_config ==
    /\ fcall.fn = "none"
    /\ sdk # NoSdk
    /\ fcall' = [fn |-> "get_config", input |-> <<>>, out |-> get_config(sdk, self_max_retries)]
    /\ UNCHANGED sdkvars

NextConfig ==
    \/ call_atoshipSDK
    \/ call_update_config
    \/ call_get_config
    \/ take_outcome

SpecConfig == ConfigInit /\ [][NextConfig]_vars

----------------------------------------------------------------------------
(* C23 *)

NonEmptyStringKey(k) == k.t = "str" /\ k.s # <<>>

STATED_BASE_URL == <<"h", "t", "t", "p", "s", ":", "/", "/", "a", "p", "i", ".", "a", "t", "o", "s", "h", "i", "p", ".", "c", "o", "m">>

\* what the constructor's caller then holds, as get_config reports it
ConstructedWith(a) ==
    /\ sdk # NoSdk
    /\ sdk.base_url = (IF a.base_url.has THEN rstrip_slash(a.base_url.v) ELSE STATED_BASE_URL)
    /\ sdk.timeout = (IF a.timeout.has THEN a.timeout.v ELSE 30)
    /\ self_max_retries = (IF a.max_retries.has THEN a.max_retries.v ELSE 3)
    /\ sdk.debug = (IF a.debug.has THEN a.debug.v ELSE FALSE)

\* C23: constructing atoshipSDK with a missing (None), empty or non-string API key raises
\* ConfigurationError and leaves the caller without a client; with a non-empty string key
\* the construction succeeds and every parameter left out takes its default: base_url
\* https://api.atoship.com, timeout 30, max_retries 3, debug off.
C23_Construction ==
    fcall.fn = "atoshipSDK" =>
        IF NonEmptyStringKey(fcall.input.api_key)
        THEN ~fcall.out.raised /\ ConstructedWith(fcall.input)
        ELSE /\ fcall.out.raised
             /\ fcall.out.type = "ConfigurationError"
             /\ sdk = NoSdk

C23_Witness ==
    /\ fcall.fn = "atoshipSDK"
    /\ fcall.input.api_key = KeyInt
    /\ fcall.out.raised

C23_WitnessDefaults ==
    /\ fcall.fn = "atoshipSDK"
    /\ ~fcall.out.raised
    /\ ~fcall.input.base_url.has /\ ~fcall.input.timeout.has
    /\ ~fcall.input.max_retries.has /\ ~fcall.input.debug.has

----------------------------------------------------------------------------
(* C24 *)

ConfigKeys == {"base_url", "timeout", "max_retries", "debug"}

\* get_config reports the four attributes as they are now, and nothing else
ReportsCurrentConfig ==
    fcall.fn = "get_config" =>
        /\ DOMAIN fcall.out = ConfigKeys
        /\ fcall.out.base_url = sdk.base_url
        /\ fcall.out.timeout = sdk.timeout
        /\ fcall.out.max_retries = self_max_retries
        /\ fcall.out.debug = sdk.debug

\* a step of update_config sets what the caller named and keeps the rest; no other step of
\* a constructed client changes the configuration
ConfigStep ==
    sdk # NoSdk =>
        IF fcall'.fn = "update_config" /\ fcall.fn = "none"
        THEN LET kwargs == fcall'.input
             IN  /\ sdk'.timeout = (IF kwargs.timeout.has THEN kwargs.timeout.v ELSE sdk.timeout)
                 /\ self_max_retries' =
                        (IF kwargs.max_retries.has THEN kwargs.max_retries.v ELSE self_max_retries)
                 /\ sdk'.debug = (IF kwargs.debug.has THEN kwargs.debug.v ELSE sdk.debug)
                 /\ sdk'.base_url = sdk.base_url
                 /\ sdk'.api_key = sdk.api_key
        ELSE /\ sdk'.timeout = sdk.timeout
             /\ self_max_retries' = self_max_retries
             /\ sdk'.debug = sdk.debug
             /\ sdk'.base_url = sdk.base_url
             /\ sdk'.api_key = sdk.api_key

\* C24: after any sequence of update_config calls, get_config returns exactly the keys
\* base_url, timeout, max_retries and debug with the most recently set values (those of the
\* constructor if never updated) and never the API key; update_config leaves base_url and
\* the API key unchanged and ignores keys it does not know.
C24_ConfigReport == []ReportsCurrentConfig /\ [][ConfigStep]_vars

\* get_config after update_config has changed the timeout the client was constructed with
C24_Witness ==
    /\ fcall.fn = "get_config"
    /\ fcall.out.timeout # sdk.client_timeout

\* update_config was handed base_url and api_key, which it does not know
C24_WitnessUnknownKeys ==
    /\ fcall.fn = "update_config"
    /\ fcall.input.base_url.has
    /\ fcall.input.api_key.has

----------------------------------------------------------------------------
(* C25 *)

\* C25: in every reachable state the timeout the underlying HTTP client applies to an
\* attempt equals the timeout get_config reports, also after update_config(timeout=t).
C25_ClientTimeoutIsConfigured ==
    sdk # NoSdk => sdk.client_timeout = get_config(sdk, self_max_retries).timeout

----------------------------------------------------------------------------
(* models.Address: construction from a dictionary and dict(by_alias=True) *)

A_SHIPPING == <<"S", "H", "I", "P", "P", "I", "N", "G">>
A_BILLING == <<"B", "I", "L", "L", "I", "N", "G">>
A_PICKUP == <<"P", "I", "C", "K", "U", "P">>
A_Warehouse == <<"W", "a", "r", "e", "h", "o", "u", "s", "e">>
A_Street == <<"1", "2", "3", " ", "M", "a", "i", "n", " ", "S", "t">>
A_City == <<"S", "a", "n", " ", "F", "r", "a", "n", "c", "i", "s", "c", "o">>
A_CA == <<"C", "A">>
A_94105 == <<"9", "4", "1", "0", "5">>
A_90001 == <<"9", "0", "0", "0", "1">>
A_US == <<"U", "S">>
A_Phone == <<"4", "1", "5", "-", "5", "5", "5", "-", "0", "1", "2", "3">>
A_Timestamp == <<"2", "0", "2", "4", "-", "0", "1", "-", "1", "5", "T", "1", "0", ":", "3", "0", ":", "0", "0", "Z">>
A_Yesterday == <<"y", "e", "s", "t", "e", "r", "d", "a", "y">>

\* the members of AddressType
AddressType == {A_SHIPPING, A_BILLING}

\* a datetime object; s keeps the instant
VDatetime(s) == Val("datetime", s, 0)

\* the text pydantic parses into a datetime: YYYY-MM-DDTHH:MM:SSZ
is_iso_datetime(s) ==
    /\ Len(s) = 20
    /\ s[5] = "-" /\ s[8] = "-" /\ s[11] = "T" /\ s[14] = ":" /\ s[17] = ":" /\ s[20] = "Z"
    /\ \A i \in (1..19) \ {5, 8, 11, 14, 17} : IsDigit(s[i])

\* the outcome of validating one field: the attribute's value, or an error
FieldOk(v) == [ok |-> TRUE, v |-> v]

FieldError == [ok |-> FALSE, v |-> VNone]

\* name: str
required_str(v) == IF v.t = "str" THEN FieldOk(v) ELSE FieldError

\* type: AddressType, with use_enum_values
required_enum(v, members) == IF v.t = "str" /\ v.s \in members THEN FieldOk(v) ELSE FieldError

\* company: Optional[str] = None
optional_str(v) ==
    IF v.t \in {"absent", "none"} THEN FieldOk(VNone)
    ELSE IF v.t = "str" THEN FieldOk(v)
    ELSE FieldError

\* is_default: Optional[bool] = Field(default=False, ...)
optional_bool(v) ==
    IF v.t = "absent" THEN FieldOk(VBool(FALSE))
    ELSE IF v.t = "none" THEN FieldOk(VNone)
    ELSE IF v.t = "bool" THEN FieldOk(v)
    ELSE FieldError

\* created_at: Optional[datetime] = Field(default=None, ...): text becomes a datetime object
optional_datetime(v) ==
    IF v.t \in {"absent", "none"} THEN FieldOk(VNone)
    ELSE IF v.t = "str" /\ is_iso_datetime(v.s) THEN FieldOk(VDatetime(v.s))
    ELSE FieldError

\* the keys of an address on the wire
AddressWireKeys ==
    {"id", "type", "name", "company", "street1", "street2", "city", "state", "postalCode",
     "country", "phone", "email", "isDefault", "isValidated", "createdAt", "updatedAt"}

\* the validation of every field of Address, under the attribute's name
Address_fields(data) ==
    [id |-> optional_str(data.id),
     type |-> required_enum(data.type, AddressType),
     name |-> required_str(data.name),
     company |-> optional_str(data.company),
     street1 |-> required_str(data.street1),
     street2 |-> optional_str(data.street2),
     city |-> required_str(data.city),
     state |-> required_str(data.state),
     postal_code |-> required_str(data.postalCode),
     country |-> required_str(data.country),
     phone |-> optional_str(data.phone),
     email |-> optional_str(data.email),
     is_default |-> optional_bool(data.isDefault),
     is_validated |-> optional_bool(data.isValidated),
     created_at |-> optional_datetime(data.createdAt),
     updated_at |-> optional_datetime(data.updatedAt)]

\* Address(**data): the instance, or pydantic's ValidationError naming the failed attributes
Address_init(data) ==
    LET fields == Address_fields(data)
        failed == {f \in DOMAIN fields : ~fields[f].ok}
    IN  IF failed # {}
        THEN [raised |-> TRUE, failed |-> failed]
        ELSE [raised |-> FALSE, self |-> [f \in DOMAIN fields |-> fields[f].v]]

\* address.dict(by_alias=True)
Address_dict_by_alias(self) ==
    [id |-> self.id, type |-> self.type, name |-> self.name, company |-> self.company,
     street1 |-> self.street1, street2 |-> self.street2, city |-> self.city,
     state |-> self.state, postalCode |-> self.postal_code, country |-> self.country,
     phone |-> self.phone, email |-> self.email, isDefault |-> self.is_default,
     isValidated |-> self.is_validated, createdAt |-> self.created_at,
     updatedAt |-> self.updated_at]

\* _validate_and_convert(data, Address) up to the translation of the exception
Address_round_trip(data) ==
    LET made == Address_init(data)
    IN  IF made.raised THEN made
        ELSE [raised |-> FALSE, dict |-> Address_dict_by_alias(made.self)]

\* an address on the wire, with the fields the model varies
AddressData(type, name, postalCode, phone, isDefault, isValidated, createdAt) ==
    [id |-> VAbsent, type |-> type, name |-> name, company |-> VAbsent,
     street1 |-> VStr(A_Street), street2 |-> VAbsent, city |-> VStr(A_City),
     state |-> VStr(A_CA), postalCode |-> postalCode, country |-> VStr(A_US),
     phone |-> phone, email |-> VAbsent, isDefault |-> isDefault,
     isValidated |-> isValidated, createdAt |-> createdAt, updatedAt |-> VAbsent]

OptBools == {VAbsent, VBool(TRUE), VBool(FALSE)}

\* values of the declared JSON types only: what pydantic does with a value of another
\* type depends on the installed version
Addresses ==
    { AddressData(type, name, postalCode, phone, isDefault, isValidated, createdAt) :
        type \in {VAbsent, VStr(A_SHIPPING), VStr(A_BILLING), VStr(A_PICKUP)},
        name \in {VStr(A_Warehouse)},
        postalCode \in {VAbsent, VStr(A_94105)},
        phone \in {VAbsent, VStr(A_Phone)},
        isDefault \in OptBools,
        isValidated \in OptBools,
        createdAt \in {VAbsent, VStr(A_Timestamp), VStr(A_Yesterday)} }

call_Address_round_trip ==
    /\ fcall.fn = "none"
    /\ \E data \in Addresses :
         fcall' = [fn |-> "Address_round_trip", input |-> data, out |-> Address_round_trip(data)]
    /\ UNCHANGED sdkvars

NextAddress ==
    \/ call_Address_round_trip
    \/ take_outcome

SpecAddress == FnInit /\ [][NextAddress]_vars

----------------------------------------------------------------------------
(* C26 *)

\* the keys the caller supplied
Supplied(data) == {k \in DOMAIN data : Has(data[k])}

\* C26: an Address constructed from wire-format keys and serialized again with aliasing
\* gives every supplied key back under its wire name with the same value: nothing supplied
\* is lost or changed.
C26_AddressRoundTrip ==
    (fcall.fn = "Address_round_trip" /\ ~fcall.out.raised) =>
        /\ DOMAIN fcall.out.dict = AddressWireKeys
        /\ \A k \in Supplied(fcall.input) : fcall.out.dict[k] = fcall.input[k]

\* the round trip of an address that carries no timestamp
C26_WithoutTimestamps ==
    (fcall.fn = "Address_round_trip" /\ ~fcall.out.raised
        /\ ~Has(fcall.input.createdAt) /\ ~Has(fcall.input.updatedAt)) =>
        /\ DOMAIN fcall.out.dict = AddressWireKeys
        /\ \A k \in Supplied(fcall.input) : fcall.out.dict[k] = fcall.input[k]

----------------------------------------------------------------------------
(* get_rates and compare_rates *)

VDict == Val("dict", <<>>, 0)

\* GetRatesRequest(**rate_request): the attributes that fail validation; a nested address
\* fails when Address rejects it
GetRatesRequest_failed(rate_request) ==
    {f \in {"from_address", "to_address", "package"} :
        \/ f = "from_address" /\ Address_init(rate_request.fromAddress).raised
        \/ f = "to_address" /\ Address_init(rate_request.toAddress).raised
        \/ f = "package" /\ rate_request.package.t # "dict"}

\* the text of pydantic's ValidationError
validation_error_text(n, model) ==
    IntToStr(n) \o " validation error" \o (IF n = 1 THEN "" ELSE "s") \o " for " \o model

\* _validate_and_convert(rate_request, GetRatesRequest)
validate_and_convert_rates(rate_request) ==
    LET failed == GetRatesRequest_failed(rate_request)
    IN  IF failed # {}
        THEN Raise(ValidationError("Validation error: "
                        \o validation_error_text(Cardinality(failed), "GetRatesRequest")))
        ELSE Return([fromAddress |-> Address_round_trip(rate_request.fromAddress).dict,
                     toAddress |-> Address_round_trip(rate_request.toAddress).dict,
                     package |-> rate_request.package])

\* get_rates and compare_rates up to their call of _make_request
rates_method(m, rate_request) ==
    /\ pc = "idle"
    /\ LET c == validate_and_convert_rates(rate_request)
       IN  IF c.kind = "raise"
           THEN raise_before_request(m, Arg("rate_request", <<rate_request>>), c.exc)
           ELSE start_request(m, Arg("rate_request", <<rate_request>>), "POST",
                              Arg("GetRatesRequest", <<c.val>>))

\* atoshipSDK.get_rates(rate_request)
get_rates(rate_request) == rates_method("get_rates", rate_request)

\* atoshipSDK.compare_rates(rate_request)
compare_rates(rate_request) == rates_method("compare_rates", rate_request)

\* an address with the six fields name, street1, city, state, postalCode, country
UntypedAddress(postalCode) ==
    AddressData(VAbsent, VStr(A_Warehouse), VStr(postalCode), VAbsent, VAbsent, VAbsent, VAbsent)

TypedAddress(postalCode) ==
    AddressData(VStr(A_SHIPPING), VStr(A_Warehouse), VStr(postalCode), VAbsent, VAbsent,
                VAbsent, VAbsent)

RateRequests ==
    [fromAddress : {UntypedAddress(A_94105), TypedAddress(A_94105)},
     toAddress : {UntypedAddress(A_90001), TypedAddress(A_90001)},
     package : {VDict, VAbsent}]

NextRates ==
    \/ \E rate_request \in RateRequests : get_rates(rate_request)
    \/ \E rate_request \in RateRequests : compare_rates(rate_request)
    \/ \E t \in OrderTransports : Attempt(t)
    \/ Deliver

SpecRates == FnInit /\ [][NextRates]_vars

----------------------------------------------------------------------------
(* C27 *)

\* the rate request of the claim: two addresses without 'type', and a package
UntypedRateRequest ==
    [fromAddress |-> UntypedAddress(A_94105), toAddress |-> UntypedAddress(A_90001),
     package |-> VDict]

RatesCalledWith(rate_request) ==
    /\ Called("get_rates") \/ Called("compare_rates")
    /\ arg = Arg("rate_request", <<rate_request>>)

\* C27: get_rates and compare_rates accept a rate request whose addresses carry name,
\* street1, city, state, postalCode and country but no 'type', with a package: it passes
\* the client-side validation, one POST is issued, and a success envelope of the server
\* is returned.
C27_UntypedAddressesAccepted ==
    RatesCalledWith(UntypedRateRequest) =>
        /\ Len(requests) = 1
        /\ requests[1].method = "POST"
        /\ (pc = "done" /\ LastIsResponse /\ AnsweredSuccess(Len(transcript)))
              => result.kind = "APIResponse"

\* what the code does with that request
C27_Observed ==
    RatesCalledWith(UntypedRateRequest) =>
        RaisedValidationError("Validation error: 2 validation errors for GetRatesRequest")
            /\ NoHttpRequest

----------------------------------------------------------------------------
(* validate_url *)

\* str.find(c) counted from 1: the first position of a character of cs at or after
\* position from, or 0
find_any(s, cs, from) ==
    LET hits == {i \in from..Len(s) : s[i] \in cs}
    IN  IF hits = {} THEN 0 ELSE CHOOSE i \in hits : \A j \in hits : i <= j

Letters ==
    {LowerLetters[i] : i \in DOMAIN LowerLetters} \cup {UpperLetters[i] : i \in DOMAIN UpperLetters}

IsAlpha(c) == c \in Letters

\* urllib.parse.scheme_chars
scheme_chars == Letters \cup Digits \cup {"+", "-", "."}

\* urlsplit: the scheme is the text before the first colon when it starts with a letter
\* and holds scheme characters only; url is what follows
split_scheme(url) ==
    LET i == find_any(url, {":"}, 1)
    IN  IF i > 1 /\ IsAlpha(url[1]) /\ \A j \in 1..(i - 1) : url[j] \in scheme_chars
        THEN [scheme |-> lower(SubSeq(url, 1, i - 1)), url |-> SubSeq(url, i + 1, Len(url))]
        ELSE [scheme |-> <<>>, url |-> url]

\* urlsplit / _splitnetloc: after "//" the netloc runs to the first of / ? #
split_netloc(url) ==
    IF Len(url) >= 2 /\ url[1] = "/" /\ url[2] = "/"
    THEN LET delim == find_any(url, {"/", "?", "#"}, 3)
         IN  SubSeq(url, 3, (IF delim = 0 THEN Len(url) ELSE delim - 1))
    ELSE <<>>

\* urlparse(url), the two components validate_url reads
urlparse(url) ==
    LET s == split_scheme(url)
    IN  [scheme |-> s.scheme, netloc |-> split_netloc(s.url)]

\* validate_url(url): all([result.scheme, result.netloc])
validate_url(url) ==
    LET parsed == urlparse(url)
    IN  parsed.scheme # <<>> /\ parsed.netloc # <<>>

U_https_example == <<"h", "t", "t", "p", "s", ":", "/", "/", "e", "x", "a", "m", "p", "l", "e", ".", "c", "o", "m">>
U_http_webhook == <<"h", "t", "t", "p", ":", "/", "/", "a", "p", "i", ".", "e", "x", "a", "m", "p", "l", "e", ".", "c", "o", "m", "/", "w", "e", "b", "h", "o", "o", "k">>
U_https_port == <<"h", "t", "t", "p", "s", ":", "/", "/", "s", "u", "b", "d", "o", "m", "a", "i", "n", ".", "e", "x", "a", "m", "p", "l", "e", ".", "c", "o", "m", ":", "8", "0", "8", "0", "/", "p", "a", "t", "h">>
U_not_a_url == <<"n", "o", "t", "-", "a", "-", "u", "r", "l">>
U_ftp_example == <<"f", "t", "p", ":", "/", "/", "e", "x", "a", "m", "p", "l", "e", ".", "c", "o", "m">>
U_https_only == <<"h", "t", "t", "p", "s", ":", "/", "/">>
U_HTTP_upper == <<"H", "T", "T", "P", ":", "/", "/", "E", "x", "a", "m", "p", "l", "e", ".", "c", "o", "m">>

\* the longest generated text
MaxUrlLen == 5

UrlAlphabet == {"f", "1", ":", "/"}

\* the URLs of the tests, and every text over UrlAlphabet up to MaxUrlLen characters
Urls ==
    {U_https_example, U_http_webhook, U_https_port, U_not_a_url, U_ftp_example,
     U_https_only, U_HTTP_upper, <<>>}
    \cup UNION {[1..n -> UrlAlphabet] : n \in 1..MaxUrlLen}

call_validate_url ==
    /\ fcall.fn = "none"
    /\ \E url \in Urls :
         fcall' = [fn |-> "validate_url", input |-> url, out |-> validate_url(url)]
    /\ UNCHANGED sdkvars

NextUrl ==
    \/ call_validate_url
    \/ take_outcome

SpecUrl == FnInit /\ [][NextUrl]_vars

----------------------------------------------------------------------------
(* C28 *)

StartsWith(s, prefix) == Len(s) >= Len(prefix) /\ SubSeq(s, 1, Len(prefix)) = prefix

U_http_prefix == <<"h", "t", "t", "p", ":", "/", "/">>
U_https_prefix == <<"h", "t", "t", "p", "s", ":", "/", "/">>

\* an http or https URL with a host after the two slashes
HttpUrlWithHost(url) ==
    \E prefix \in {U_http_prefix, U_https_prefix} :
        /\ StartsWith(lower(url), prefix)
        /\ Len(url) > Len(prefix)
        /\ url[Len(prefix) + 1] \notin {"/", "?", "#"}

\* C28: validate_url returns True only for an http or https URL with a non-empty host;
\* it returns False for ftp://example.com, for https://, for a text without scheme and
\* for the empty string.
C28_OnlyHttpUrls ==
    fcall.fn = "validate_url" =>
        /\ fcall.out => HttpUrlWithHost(fcall.input)
        /\ fcall.input \in {U_ftp_example, U_https_only, U_not_a_url, <<>>} => ~fcall.out

\* what validate_url decides: any scheme passes when a netloc follows it
C28_Observed ==
    fcall.fn = "validate_url" =>
        /\ HttpUrlWithHost(fcall.input) => fcall.out
        /\ fcall.input = U_ftp_example => fcall.out
        /\ fcall.input \in {U_https_only, U_not_a_url, <<>>} => ~fcall.out

----------------------------------------------------------------------------
(* retry_with_backoff around any function *)

\* what the wrapped function can do: return one of two values, or raise
FuncOutcomes ==
    {Return(BOk), Return(BOkNoData)}
    \cup {Raise(atoshipError_init(type, "boom", "None", DEmptyMap)) :
            type \in {"NetworkError", "TimeoutError", "ServerError", "RateLimitError",
                      "ValidationError"}}
    \cup {Raise(Foreign("TypeError"))}

BaseDelays == {1, 2, 5}

\* wrapper = retry_with_backoff(func, max_retries, base_delay); wrapper(): fcall keeps the
\* parameters of the decorator for the time of the call
call_wrapper ==
    /\ pc = "idle"
    /\ fcall.fn = "none"
    /\ \E max_retries \in 0..MaxCfgRetries, base_delay \in BaseDelays :
         fcall' = [fn |-> "retry_with_backoff",
                   input |-> [max_retries |-> max_retries, base_delay |-> base_delay],
                   out |-> <<>>]
    /\ pc' = "retrying"
    /\ method' = "func"
    /\ attempt' = 0
    /\ last_exception' = NoExc
    /\ calls' = 0
    /\ sleeps' = <<>>
    /\ transcript' = <<>>
    /\ UNCHANGED <<sdk, self_max_retries, last_response, ret, result, arg, requests>>

\* one iteration of the loop: func(*args, **kwargs) and what follows it; transcript keeps
\* what func did on each attempt
func_attempt ==
    /\ pc = "retrying"
    /\ fcall.fn = "retry_with_backoff"
    /\ \E o \in FuncOutcomes :
         /\ calls' = calls + 1
         /\ transcript' = Append(transcript, o)
         /\ wrapper_iteration(fcall.input.max_retries, fcall.input.base_delay, o)
    /\ UNCHANGED <<sdk, self_max_retries, method, last_response, arg, requests, fcall>>

\* the caller has the wrapper's outcome
wrapper_ends ==
    /\ pc = "done"
    /\ fcall.fn = "retry_with_backoff"
    /\ pc' = "idle"
    /\ method' = "none"
    /\ attempt' = 0
    /\ last_exception' = NoExc
    /\ calls' = 0
    /\ sleeps' = <<>>
    /\ transcript' = <<>>
    /\ ret' = NoOutcome
    /\ result' = NoOutcome
    /\ fcall' = NoCall
    /\ UNCHANGED <<sdk, self_max_retries, last_response, arg, requests>>

NextRetry ==
    \/ call_wrapper
    \/ func_attempt
    \/ wrapper_ends

SpecRetry == FnInit /\ [][NextRetry]_vars

\* func returns or raises, and time.sleep returns: the loop always takes its next step
SpecRetryLive == SpecRetry /\ WF_vars(func_attempt)

----------------------------------------------------------------------------
(* C29 *)

Wrapped == fcall.fn = "retry_with_backoff"

\* C29: the retry after failed attempt k (counted from 0) is preceded by one sleep of
\* exactly base_delay * 2^k; there is one sleep between two consecutive attempts and none
\* after a success, after a non-retriable error or after the final failed attempt, so a
\* call that made a attempts has slept a - 1 times.
C29_BackoffSchedule ==
    Wrapped =>
        /\ \A k \in 0..(Len(sleeps) - 1) : sleeps[k + 1] = fcall.input.base_delay * (2 ^ k)
        /\ pc = "retrying" => Len(sleeps) = calls
        /\ pc = "done" => Len(sleeps) = calls - 1

\* a call that ended after three attempts, with a base delay other than one second
C29_Witness ==
    /\ Wrapped
    /\ pc = "done"
    /\ calls = 3
    /\ fcall.input.base_delay = 2
    /\ sleeps = <<2, 4>>

----------------------------------------------------------------------------
(* C30 *)

RetriedTypes == {"NetworkError", "TimeoutError", "ServerError"}

\* how a finished call ended: with the value of the first success, or with an exception
\* func raised
EndsAsFuncDid ==
    LET last == transcript[calls]
    IN  IF last.kind = "return"
        THEN ret = last /\ \A i \in 1..(calls - 1) : transcript[i].kind = "raise"
        ELSE ret.kind = "raise" /\ \E i \in 1..calls : transcript[i].exc = ret.exc

RetryBounds ==
    Wrapped =>
        /\ calls <= fcall.input.max_retries + 1
        /\ pc = "done" => calls >= 1 /\ EndsAsFuncDid
        /\ \A i \in 1..(calls - 1) :
              transcript[i].kind = "raise" /\ transcript[i].exc.type \in RetriedTypes

\* C30: for every max_retries >= 0 and every sequence of outcomes of func, the wrapper
\* terminates: func is called at least once and at most max_retries + 1 times, and the call
\* ends by returning the value of the first success or by raising an exception that func
\* raised; an exception other than NetworkError, TimeoutError and ServerError is never
\* followed by another attempt.
C30_Terminates == []RetryBounds /\ ((Wrapped /\ pc = "retrying") ~> (pc = "done"))

\* every attempt failed with a retriable error and the last exception was raised
C30_Witness ==
    /\ Wrapped
    /\ pc = "done"
    /\ fcall.input.max_retries = 2
    /\ calls = 3
    /\ ret.kind = "raise"

====
